---- MODULE Spec2Model ----
(***************************************************************************)
(* Calls plugin: the server-side session registry and call state store     *)
(* (server/session.go) and the client-side call session (CallsClient).     *)
(***************************************************************************)
EXTENDS Integers, Sequences, FiniteSets, TLC

(***************************************************************************)
(* Server: session registry and call state store                           *)
(***************************************************************************)

\* user and channel identifiers, and the goroutines that run the calls
Users == {"A", "B"}
Channels == {"general", "town"}
Procs == {"g1", "g2"}

\* calls started in one behaviour of Spec / of SpecSerial
MaxCalls == 3
MaxSerialCalls == 4

\* retries of the store transaction after a version conflict
MaxRetries == 1

\* a nil pointer, an absent map key, a key with no record in the store
Nil == [tag |-> "nil"]
NoSession == "none"

ErrNone == "nil"
ErrChannelStateMissing == "channel state is missing from store"
ErrCallStateMissing == "call state is missing from channel state"
ErrStoreConflict == "store conflict"

VARIABLES
    sessions,   \* p.sessions: userID -> channelID of the session, or NoSession
    kv,         \* the store: channelID -> channelState, or Nil
    kvVersion,  \* the store: channelID -> version of the record
    nextId,     \* identifiers model.NewId() has handed out
    g,          \* goroutine -> the call it runs and where it stands
    calls,      \* calls started so far
    hist        \* SpecSerial: the calls that returned, in order

serverVars == <<sessions, kv, kvVersion, nextId, g, calls, hist>>

callState(id, users) == [tag |-> "callState", ID |-> id, Users |-> users]
channelState(call) == [tag |-> "channelState", Call |-> call]

\* the member set a record holds
Members(state) ==
    IF state = Nil \/ state.Call = Nil THEN {} ELSE state.Call.Users

Idle == [pc |-> "idle", op |-> "none", userID |-> "", channelID |-> "",
         attempts |-> 0, readVersion |-> 0, newState |-> Nil,
         st |-> channelState(Nil), err |-> ErrNone]

\* addUserSession's callback without the state.Call == nil test: every join
\* starts a call of its own
addUserSessionCbFreshCall(state, userID, id) ==
    IF state = Nil
    THEN [state |-> Nil, err |-> ErrChannelStateMissing, ids |-> 0]
    ELSE [state |-> channelState(callState(id, {userID})), err |-> ErrNone, ids |-> 1]

\* addUserSession's callback without the state == nil test: a missing record
\* is taken for an empty one
addUserSessionCbFabricate(state, userID, id) ==
    LET call == IF state = Nil \/ state.Call = Nil THEN callState(id, {}) ELSE state.Call
        ids == IF state = Nil \/ state.Call = Nil THEN 1 ELSE 0
    IN [state |-> channelState([call EXCEPT !.Users = @ \cup {userID}]),
        err |-> ErrNone, ids |-> ids]

\* the callback of addUserSession: [state, err, ids] for the record read
addUserSessionCb(state, userID, id) ==
    IF state = Nil
    THEN [state |-> Nil, err |-> ErrChannelStateMissing, ids |-> 0]
    ELSE LET call == IF state.Call = Nil THEN callState(id, {}) ELSE state.Call
             ids == IF state.Call = Nil THEN 1 ELSE 0
         IN [state |-> channelState([call EXCEPT !.Users = @ \cup {userID}]),
             err |-> ErrNone, ids |-> ids]

\* removeUserSession's callback without the state.Call == nil test: a leave
\* with no call stores the record back
removeUserSessionCbLenient(state, userID) ==
    IF state = Nil
    THEN [state |-> Nil, err |-> ErrChannelStateMissing, ids |-> 0]
    ELSE IF state.Call = Nil
    THEN [state |-> state, err |-> ErrNone, ids |-> 0]
    ELSE LET users == state.Call.Users \ {userID}
         IN [state |-> channelState(IF users = {} THEN Nil
                                    ELSE [state.Call EXCEPT !.Users = users]),
             err |-> ErrNone, ids |-> 0]

\* removeUserSession's callback without the len(Users) == 0 test
removeUserSessionCbKeepEmpty(state, userID) ==
    IF state = Nil
    THEN [state |-> Nil, err |-> ErrChannelStateMissing, ids |-> 0]
    ELSE IF state.Call = Nil
    THEN [state |-> Nil, err |-> ErrCallStateMissing, ids |-> 0]
    ELSE [state |-> channelState([state.Call EXCEPT !.Users = @ \ {userID}]),
          err |-> ErrNone, ids |-> 0]

\* the callback of removeUserSession
removeUserSessionCb(state, userID) ==
    IF state = Nil
    THEN [state |-> Nil, err |-> ErrChannelStateMissing, ids |-> 0]
    ELSE IF state.Call = Nil
    THEN [state |-> Nil, err |-> ErrCallStateMissing, ids |-> 0]
    ELSE LET users == state.Call.Users \ {userID}
         IN [state |-> channelState(IF users = {} THEN Nil
                                    ELSE [state.Call EXCEPT !.Users = users]),
             err |-> ErrNone, ids |-> 0]

Callback(c, state) ==
    IF c.op = "add" THEN addUserSessionCb(state, c.userID, nextId + 1)
    ELSE removeUserSessionCb(state, c.userID)

\* addUserSession, lines 48-51: the registry gets the session under p.mut
AddRegister(p, userID, channelID) ==
    /\ g[p].pc = "idle"
    /\ sessions' = [sessions EXCEPT ![userID] = channelID]
    /\ g' = [g EXCEPT ![p] = [Idle EXCEPT !.pc = "txn", !.op = "add",
                                          !.userID = userID, !.channelID = channelID]]
    /\ calls' = calls + 1
    /\ UNCHANGED <<kv, kvVersion, nextId>>

\* removeUserSession that leaves the session in the registry
RemoveRegisterKeepsSession(p, userID, channelID) ==
    /\ g[p].pc = "idle"
    /\ g' = [g EXCEPT ![p] = [Idle EXCEPT !.pc = "txn", !.op = "remove",
                                          !.userID = userID, !.channelID = channelID]]
    /\ calls' = calls + 1
    /\ UNCHANGED <<sessions, kv, kvVersion, nextId>>

\* removeUserSession, lines 74-77: the registry drops the user under p.mut
RemoveRegister(p, userID, channelID) ==
    /\ g[p].pc = "idle"
    /\ sessions' = [sessions EXCEPT ![userID] = NoSession]
    /\ g' = [g EXCEPT ![p] = [Idle EXCEPT !.pc = "txn", !.op = "remove",
                                          !.userID = userID, !.channelID = channelID]]
    /\ calls' = calls + 1
    /\ UNCHANGED <<kv, kvVersion, nextId>>

\* kvSetAtomicChannelState under an addUserSession that takes the session
\* out of the registry again when the callback fails
TxnReadRollsBack(p) ==
    /\ g[p].pc = "txn"
    /\ LET c == g[p]
           r == Callback(c, kv[c.channelID])
       IN /\ nextId' = nextId + r.ids
          /\ g' = [g EXCEPT ![p] =
                IF r.err # ErrNone
                THEN [c EXCEPT !.pc = "idle", !.err = r.err]
                ELSE [c EXCEPT !.pc = "cas", !.readVersion = kvVersion[c.channelID],
                               !.newState = r.state, !.st = r.state]]
          /\ sessions' = IF r.err # ErrNone /\ c.op = "add"
                         THEN [sessions EXCEPT ![c.userID] = NoSession]
                         ELSE sessions
    /\ UNCHANGED <<kv, kvVersion, calls>>

\* kvSetAtomicChannelState: read the record and its version, run the callback
TxnRead(p) ==
    /\ g[p].pc = "txn"
    /\ LET c == g[p]
           r == Callback(c, kv[c.channelID])
       IN /\ nextId' = nextId + r.ids
          /\ g' = [g EXCEPT ![p] =
                IF r.err # ErrNone
                THEN [c EXCEPT !.pc = "idle", !.err = r.err]
                ELSE [c EXCEPT !.pc = "cas", !.readVersion = kvVersion[c.channelID],
                               !.newState = r.state, !.st = r.state]]
    /\ UNCHANGED <<sessions, kv, kvVersion, calls>>

\* a transaction that never gives up
RetriesLeftAlways(c) == TRUE

\* the transaction gives up after MaxRetries retries
RetriesLeft(c) == c.attempts < MaxRetries

\* kvSetAtomicChannelState over a store with one version for all its keys:
\* a write to one channel's record moves the version of every record
TxnCasStoreWideVersion(p) ==
    /\ g[p].pc = "cas"
    /\ LET c == g[p]
       IN IF kvVersion[c.channelID] = c.readVersion
          THEN /\ kv' = [kv EXCEPT ![c.channelID] = c.newState]
               /\ kvVersion' = [ch \in Channels |-> kvVersion[ch] + 1]
               /\ g' = [g EXCEPT ![p] = [c EXCEPT !.pc = "idle", !.newState = Nil,
                                                  !.err = ErrNone]]
          ELSE /\ UNCHANGED <<kv, kvVersion>>
               /\ g' = [g EXCEPT ![p] =
                     IF RetriesLeft(c)
                     THEN [c EXCEPT !.pc = "txn", !.attempts = @ + 1, !.newState = Nil]
                     ELSE [c EXCEPT !.pc = "idle", !.newState = Nil,
                                    !.err = ErrStoreConflict]]
    /\ UNCHANGED <<sessions, nextId, calls>>

\* kvSetAtomicChannelState: store the result if the version is the one read,
\* else retry, or give up with a conflict
TxnCas(p) ==
    /\ g[p].pc = "cas"
    /\ LET c == g[p]
       IN IF kvVersion[c.channelID] = c.readVersion
          THEN /\ kv' = [kv EXCEPT ![c.channelID] = c.newState]
               /\ kvVersion' = [kvVersion EXCEPT ![c.channelID] = @ + 1]
               /\ g' = [g EXCEPT ![p] = [c EXCEPT !.pc = "idle", !.newState = Nil,
                                                  !.err = ErrNone]]
          ELSE /\ UNCHANGED <<kv, kvVersion>>
               /\ g' = [g EXCEPT ![p] =
                     IF RetriesLeft(c)
                     THEN [c EXCEPT !.pc = "txn", !.attempts = @ + 1, !.newState = Nil]
                     ELSE [c EXCEPT !.pc = "idle", !.newState = Nil,
                                    !.err = ErrStoreConflict]]
    /\ UNCHANGED <<sessions, nextId, calls>>

(***************************************************************************)
(* Client: CallsClient                                                     *)
(***************************************************************************)

\* media streams the browser and the peer hand to the client in one behaviour
MaxStreams == 2
\* join acknowledgments the transport delivers (each constructs a peer)
MaxPeers == 1
\* asynchronous calls in flight at once
MaxTasks == 1

\* the configuration the client is constructed with
Config == [enableAV1 |-> TRUE, simulcast |-> FALSE]

\* null for a device, and the label of a preference stored without one
NoDev == [deviceId |-> "", label |-> ""]
Undefined == "<undefined>"

\* the devices of the browser
mic1 == [deviceId |-> "mic1", label |-> "Mic 1"]
mic2 == [deviceId |-> "mic2", label |-> "Mic 2"]
spk1 == [deviceId |-> "spk1", label |-> "Speaker 1"]
spk2 == [deviceId |-> "spk2", label |-> "Speaker 2"]
\* localStorage without a stored device
NoPreference == [deviceId |-> "", label |-> Undefined]

AudioInputPermissionsError == "missing audio input permissions"
AudioInputMissingError == "no audio input available"
rtcPeerErr == "rtc peer error"
rtcPeerTimeoutErr == "timed out waiting for rtc connection"
rtcPeerCloseErr == "rtc peer close"
insecureContextErr == "insecure context"
wsReconnectTimeoutErr == "ws reconnect timeout"
wsJoinErr == "ws join error"
TypeError == "TypeError"
NoErr == ""

VARIABLE
    client      \* the CallsClient instance, the browser and library objects
                \* it holds, and its asynchronous calls in flight

vars == <<sessions, kv, kvVersion, nextId, g, calls, hist, client>>

\* what a step did: a call of the transport, of the peer, of a track, or an
\* event emitted to the client's listeners
Eff(k, n, a) == [k |-> k, n |-> n, a |-> a]
Do(s, e) == [s EXCEPT !.out = Append(@, e)]
Emit(s, n, a) == Do(s, Eff("emit", n, a))
Send(s, n) == Do(s, Eff("ws.send", n, ""))
\* ws.send of 'screen_on' or 'screen_off'
SendScreen(s, n) == [Send(s, n) EXCEPT !.lastScreen = n]
\* this.peer.addTrack(track, this.stream) of the outbound audio track
AddTrack(s) ==
    Do([s EXCEPT !.peers[s.peer].voiceAdds = IF @ < 2 THEN @ + 1 ELSE @],
       Eff("peer", "addTrack", ""))

\* a frame of an asynchronous call: the function, the point it resumes at
\* and its locals
Frame(fn) ==
    [fn |-> fn, pc |-> "entry", device |-> NoDev, store |-> FALSE,
     deviceType |-> "", track |-> 0, track2 |-> 0, stream |-> 0, flag |-> FALSE]
Ok == [k |-> "ok", err |-> NoErr, stream |-> 0, flag |-> FALSE]
Thrown(err) == [k |-> "throw", err |-> err, stream |-> 0, flag |-> FALSE]
Task(frame) == [stack |-> <<frame>>, wait |-> "", wpeer |-> 0, res |-> Ok]

Top(s, i) == s.tasks[i].stack[Len(s.tasks[i].stack)]
Res(s, i) == s.tasks[i].res
SetTop(s, i, f) ==
    [s EXCEPT !.tasks[i].stack[Len(s.tasks[i].stack)] = f]
\* go on at pc
Goto(s, i, pc) == SetTop([s EXCEPT !.tasks[i].res = Ok], i, [Top(s, i) EXCEPT !.pc = pc])
\* await a promise of the browser or of the peer, resuming at pc
Await(s, i, what, wpeer, pc) ==
    SetTop([s EXCEPT !.tasks[i].wait = what, !.tasks[i].wpeer = wpeer,
                     !.tasks[i].res = Ok],
           i, [Top(s, i) EXCEPT !.pc = pc])
\* await a call of an asynchronous function, resuming at pc
Call(s, i, frame, pc) ==
    LET s1 == SetTop(s, i, [Top(s, i) EXCEPT !.pc = pc])
    IN [s1 EXCEPT !.tasks[i].stack = Append(@, frame), !.tasks[i].res = Ok]
Pop(s, i, res) ==
    [s EXCEPT !.tasks[i].stack = SubSeq(@, 1, Len(@) - 1), !.tasks[i].res = res]
Return(s, i) == Pop(s, i, Ok)
Throw(s, i, err) == Pop(s, i, Thrown(err))

RemoveAt(seq, i) == SubSeq(seq, 1, i - 1) \o SubSeq(seq, i + 1, Len(seq))

RECURSIVE Exec(_, _)

\* an asynchronous call starts: it runs to its first pending promise
Spawn(s, frame) ==
    Exec([s EXCEPT !.tasks = Append(@, Task(frame))], Len(s.tasks) + 1)

(***************************************************************************)
(* Browser objects: tracks and streams                                     *)
(***************************************************************************)

Track(kind) ==
    [kind |-> kind, readyState |-> "live", enabled |-> TRUE,
     onended |-> FALSE, audio |-> 0, stopped |-> FALSE]

\* track.stop()
StopTrack(s, id) ==
    Do([s EXCEPT !.tracks[id].readyState = "ended", !.tracks[id].stopped = TRUE],
       Eff("track", "stop", ""))

\* screenTrack.onended, lines 796-809, set by setScreenStream
OnEndedFrame(id, audio) == [Frame("onended") EXCEPT !.track = id, !.track2 = audio]

\* the 'ended' event reaches the track's onended handler
DispatchEnded(s, id) ==
    IF s.tracks[id].onended
    THEN Spawn(s, OnEndedFrame(id, s.tracks[id].audio))
    ELSE s

\* the tracks of the streams the client holds, in the order cleanup meets them
RECURSIVE TracksOf(_, _)
TracksOf(s, streams) ==
    IF streams = <<>> THEN <<>>
    ELSE s.mstreams[Head(streams)] \o TracksOf(s, Tail(streams))

RECURSIVE StopAll(_, _)
StopAll(s, ids) ==
    IF ids = <<>> THEN s
    ELSE StopAll(DispatchEnded(StopTrack(s, Head(ids)), Head(ids)), Tail(ids))

\* cleanup, lines 685-692, with the streams never stopped
cleanupNothing(s) == s

\* cleanup, lines 685-692
cleanup(s) == StopAll(s, TracksOf(s, s.streams))

(***************************************************************************)
(* Synchronous methods and handlers                                        *)
(***************************************************************************)

\* getSelectedAudioDevice that takes the first of several matching devices,
\* whether it matched by identifier or by label
getSelectedAudioDeviceFirstMatch(s, deviceType) ==
    LET selectedDevice == IF deviceType = "input" THEN s.storedInput ELSE s.storedOutput
        all == IF deviceType = "input" THEN s.audioDevices.inputs
               ELSE s.audioDevices.outputs
        devices == SelectSeq(all, LAMBDA dev :
                       dev.deviceId = selectedDevice.deviceId
                       \/ dev.label = selectedDevice.label)
    IN IF selectedDevice.deviceId = "" THEN NoDev
       ELSE IF Len(devices) >= 1 THEN devices[1]
       ELSE NoDev

\* getSelectedAudioDevice, lines 237-278: the stored preference resolved
\* against the enumerated devices, NoDev for null.  The stored item is held
\* as lines 238-255 read it: NoPreference when localStorage has no item, the
\* object with its label when the item is the JSON of a device, and the
\* identifier with the label Undefined when the item is the bare identifier
\* stored by earlier versions (JSON.parse throws on it)
getSelectedAudioDevice(s, deviceType) ==
    LET selectedDevice == IF deviceType = "input" THEN s.storedInput ELSE s.storedOutput
        all == IF deviceType = "input" THEN s.audioDevices.inputs
               ELSE s.audioDevices.outputs
        devices == SelectSeq(all, LAMBDA dev :
                       dev.deviceId = selectedDevice.deviceId
                       \/ dev.label = selectedDevice.label)
        byId == SelectSeq(devices, LAMBDA dev : dev.deviceId = selectedDevice.deviceId)
    IN IF selectedDevice.deviceId = "" THEN NoDev
       ELSE IF Len(devices) > 1
            THEN (IF byId # <<>> THEN byId[1] ELSE NoDev)
       ELSE IF Len(devices) = 1 THEN devices[1]
       ELSE NoDev

\* disconnect, lines 661-682: the teardown
teardown(s, err) ==
    LET s1 == IF s.rtcMonitor # 0
              THEN Do([s EXCEPT !.peers[s.rtcMonitor].monitor = "stopped"],
                      Eff("rtcMonitor", "stop", ""))
              ELSE s
        s2 == [s1 EXCEPT !.closed = TRUE, !.teardowns = @ + 1]
        s3 == IF s2.peer # 0
              THEN Do(Do([s2 EXCEPT !.peers[s2.peer].destroys = @ + 1, !.peer = 0],
                         Eff("peer", "getStats", "")),
                      Eff("peer", "destroy", ""))
              ELSE s2
        s4 == cleanup(s3)
        s5 == IF s4.ws # 0
              THEN [Do(Send(s4, "leave"), Eff("ws", "close", ""))
                        EXCEPT !.ws = 0, !.wsState = "closed", !.wsCloses = @ + 1]
              ELSE s4
    IN [Emit(s5, "close", err) EXCEPT !.closeEmits = @ + 1, !.closeErr = err]

\* disconnect without the closed guard
disconnectUnguarded(s, err) == teardown(s, err)

\* disconnect, lines 653-683
disconnect(s, err) ==
    IF s.closed
    THEN Do(s, Eff("logErr", "client already disconnected", ""))
    ELSE teardown(s, err)

\* mute, lines 694-711
mute(s) ==
    IF s.peer = 0 \/ s.audioTrack = 0 \/ s.stream = 0 THEN s
    ELSE LET s1 == Do(s, Eff("peer", "replaceTrack", "null"))
             s2 == [s1 EXCEPT !.tracks[s.audioTrack].enabled = FALSE]
             s3 == Emit(s2, "mute", "")
         IN IF s3.ws # 0 THEN Send(s3, "mute") ELSE s3

\* unshareScreen, lines 847-855
unshareScreen(s) ==
    IF s.ws = 0 \/ s.localScreenTrack = 0 THEN s
    ELSE LET id == s.localScreenTrack
             s1 == DispatchEnded(StopTrack(s, id), id)
         IN [s1 EXCEPT !.localScreenTrack = 0]

(***************************************************************************)
(* Asynchronous methods: one step runs a call from the point it resumes at *)
(* to its next await                                                       *)
(***************************************************************************)

\* a stream of one live audio track, as getUserMedia resolves with
NewAudioStream(s) ==
    [s EXCEPT !.tracks = Append(@, Track("audio")),
              !.mstreams = Append(@, <<Len(s.tracks) + 1>>)]

\* init that ends when initAudio has failed, the error emitted
initEndsOnAudioError(s, i) ==
    LET f == Top(s, i)
        r == Res(s, i)
    IN CASE f.pc = "entry" ->
              IF Config.enableAV1 /\ ~Config.simulcast
              THEN Await(s, i, "getVideoCodec", 0, "codec")
              ELSE Goto(s, i, "secure")
         [] f.pc = "codec" ->
              Goto([s EXCEPT !.av1Codec = r.flag], i, "secure")
         [] f.pc = "secure" ->
              IF ~f.flag THEN Throw(s, i, insecureContextErr)
              ELSE Call(s, i, Frame("updateDevices"), "listen")
         [] f.pc = "listen" ->
              Call([s EXCEPT !.listening = TRUE], i, Frame("initAudio"), "audio")
         [] f.pc = "audio" ->
              IF r.k = "ok" /\ s.closed THEN Return(cleanup(s), i)
              ELSE IF r.k = "throw" THEN Return(Emit(s, "error", r.err), i)
              ELSE Return(Do([s EXCEPT !.ws = 1, !.wsState = "connecting",
                                       !.wsMade = @ + 1],
                             Eff("ws", "new", "")), i)

\* init, lines 389-425
init(s, i) ==
    LET f == Top(s, i)
        r == Res(s, i)
    IN CASE f.pc = "entry" ->
              IF Config.enableAV1 /\ ~Config.simulcast
              THEN Await(s, i, "getVideoCodec", 0, "codec")
              ELSE Goto(s, i, "secure")
         [] f.pc = "codec" ->
              Goto([s EXCEPT !.av1Codec = r.flag], i, "secure")
         [] f.pc = "secure" ->
              IF ~f.flag THEN Throw(s, i, insecureContextErr)
              ELSE Call(s, i, Frame("updateDevices"), "listen")
         [] f.pc = "listen" ->
              Call([s EXCEPT !.listening = TRUE], i, Frame("initAudio"), "audio")
         [] f.pc = "audio" ->
              IF r.k = "ok" /\ s.closed THEN Return(cleanup(s), i)
              ELSE LET s1 == IF r.k = "throw" THEN Emit(s, "error", r.err) ELSE s
                   IN Return(Do([s1 EXCEPT !.ws = 1, !.wsState = "connecting",
                                           !.wsMade = @ + 1],
                                Eff("ws", "new", "")), i)

\* updateDevices, lines 174-200
updateDevices(s, i) ==
    LET f == Top(s, i)
        r == Res(s, i)
    IN CASE f.pc = "entry" -> Await(s, i, "enumerateDevices", 0, "enumerated")
         [] f.pc = "enumerated" ->
              IF r.k = "throw" THEN Return(s, i)
              ELSE LET s1 == [s EXCEPT !.audioDevices =
                                  [inputs |-> s.devInputs, outputs |-> s.devOutputs]]
                   IN IF s1.currentAudioInputDevice # NoDev
                      THEN Call(s1, i, [Frame("handleAudioDeviceFallback")
                                            EXCEPT !.deviceType = "input"], "input")
                      ELSE Goto(s1, i, "input")
         [] f.pc = "input" ->
              IF r.k = "throw" THEN Return(s, i)
              ELSE IF s.currentAudioOutputDevice # NoDev
                   THEN Call(s, i, [Frame("handleAudioDeviceFallback")
                                        EXCEPT !.deviceType = "output"], "output")
                   ELSE Goto(s, i, "output")
         [] f.pc = "output" ->
              IF r.k = "throw" THEN Return(s, i)
              ELSE Return(Emit(s, "devicechange", ""), i)

\* handleAudioDeviceFallback, lines 202-235
handleAudioDeviceFallback(s, i) ==
    LET f == Top(s, i)
        r == Res(s, i)
        currentDevice == IF f.deviceType = "input" THEN s.currentAudioInputDevice
                         ELSE s.currentAudioOutputDevice
        devices == IF f.deviceType = "input" THEN s.audioDevices.inputs
                   ELSE s.audioDevices.outputs
        missingCurrentDevice ==
            ~\E k \in 1..Len(devices) : currentDevice.deviceId = devices[k].deviceId
        selectedDevice == getSelectedAudioDevice(s, f.deviceType)
        setter == IF f.deviceType = "input" THEN "setAudioInputDevice"
                  ELSE "setAudioOutputDevice"
        switch(dev) ==
            Call(SetTop(s, i, [f EXCEPT !.device = dev]), i,
                 [Frame(setter) EXCEPT !.device = dev, !.store = FALSE], "switched")
    IN CASE f.pc = "entry" ->
              IF missingCurrentDevice /\ Len(devices) > 0 THEN switch(devices[1])
              ELSE IF selectedDevice # NoDev /\ selectedDevice.label # currentDevice.label
                   THEN switch(selectedDevice)
                   ELSE Return(s, i)
         [] f.pc = "switched" ->
              IF r.k = "throw" THEN Throw(s, i, r.err)
              ELSE Return(Emit([s EXCEPT !.fallbacks[f.deviceType] =
                                            IF @ < 2 THEN @ + 1 ELSE @],
                               "devicefallback", f.device.deviceId), i)

\* setAudioOutputDevice that forgets the voice track, as an input change
\* on a muted client does
setAudioOutputDeviceDropsVoiceTrack(s, i) ==
    LET f == Top(s, i)
    IN IF s.peer = 0 THEN Return(s, i)
       ELSE LET s1 == IF f.store THEN [s EXCEPT !.storedOutput = f.device] ELSE s
                s2 == [s1 EXCEPT !.currentAudioOutputDevice = f.device,
                                 !.voiceTrackAdded = FALSE]
            IN Return(Emit(s2, "devicechange", ""), i)

\* setAudioOutputDevice, lines 639-651
setAudioOutputDevice(s, i) ==
    LET f == Top(s, i)
    IN IF s.peer = 0 THEN Return(s, i)
       ELSE LET s1 == IF f.store THEN [s EXCEPT !.storedOutput = f.device] ELSE s
                s2 == [s1 EXCEPT !.currentAudioOutputDevice = f.device]
            IN Return(Emit(s2, "devicechange", ""), i)

\* setAudioInputDevice, lines 586-637
setAudioInputDevice(s, i) ==
    LET f == Top(s, i)
        r == Res(s, i)
    IN CASE f.pc = "entry" ->
              IF s.peer = 0 THEN Return(s, i)
              ELSE LET s1 == IF f.store THEN [s EXCEPT !.storedInput = f.device] ELSE s
                       s2 == Emit([s1 EXCEPT !.currentAudioInputDevice = f.device],
                                  "devicechange", "")
                   IN IF s2.audioTrack = 0 \/ s2.stream = 0
                      THEN Call(s2, i, [Frame("initAudio") EXCEPT !.device = f.device],
                                "initialized")
                      ELSE LET s3 == SetTop(s2, i,
                                      [f EXCEPT !.flag = s2.tracks[s2.audioTrack].enabled])
                           IN Await(StopTrack(s3, s3.audioTrack), i,
                                    "getUserMedia", 0, "acquired")
         [] f.pc = "initialized" ->
              IF r.k = "throw" THEN Throw(s, i, r.err) ELSE Return(s, i)
         [] f.pc = "acquired" ->
              IF r.k = "throw" THEN Throw(s, i, r.err)
              ELSE LET newTrack == s.mstreams[r.stream][1]
                       isEnabled == f.flag
                       s1 == [s EXCEPT
                                !.streams = Append(@, r.stream),
                                !.mstreams[s.stream] =
                                    Append(SelectSeq(@, LAMBDA t : t # s.audioTrack),
                                           newTrack),
                                !.tracks[newTrack].enabled = isEnabled]
                       s2 == SetTop(s1, i, [f EXCEPT !.track = newTrack])
                   IN IF isEnabled
                      THEN IF s2.peer = 0 THEN Throw(s2, i, TypeError)
                           ELSE IF s2.voiceTrackAdded
                           THEN Goto(Do(s2, Eff("peer", "replaceTrack", "track")),
                                     i, "attached")
                           ELSE Await(AddTrack(s2), i,
                                      "peer.addTrack", s2.peer, "attached")
                      ELSE Goto([s2 EXCEPT !.voiceTrackAdded = FALSE], i, "attached")
         [] f.pc = "attached" ->
              IF r.k = "throw" THEN Throw(s, i, r.err)
              ELSE Return([s EXCEPT !.audioTrack = f.track], i)

\* initAudio, lines 280-329
initAudio(s, i) ==
    LET f == Top(s, i)
        r == Res(s, i)
        failed == IF Len(s.audioDevices.inputs) > 0 THEN AudioInputPermissionsError
                  ELSE AudioInputMissingError
    IN CASE f.pc = "entry" ->
              LET selectedAudioInputDevice == getSelectedAudioDevice(s, "input")
                  selectedAudioOutputDevice == getSelectedAudioDevice(s, "output")
                  s1 == IF selectedAudioInputDevice # NoDev
                        THEN [s EXCEPT !.currentAudioInputDevice = selectedAudioInputDevice]
                        ELSE s
                  s2 == IF selectedAudioOutputDevice # NoDev
                        THEN [s1 EXCEPT !.currentAudioOutputDevice = selectedAudioOutputDevice]
                        ELSE s1
              IN Await(s2, i, "getUserMedia", 0, "acquired")
         [] f.pc = "acquired" ->
              IF r.k = "throw" THEN Throw(s, i, failed)
              ELSE Call([s EXCEPT !.stream = r.stream], i, Frame("updateDevices"),
                        "updated")
         [] f.pc = "updated" ->
              IF r.k = "throw" \/ s.mstreams[s.stream] = <<>> THEN Throw(s, i, failed)
              ELSE LET audioTrack == s.mstreams[s.stream][1]
                       s1 == [s EXCEPT !.audioTrack = audioTrack,
                                       !.streams = Append(@, s.stream),
                                       !.tracks[audioTrack].enabled = FALSE]
                   IN Return(Emit(s1, "initaudio", ""), i)

\* unmute, lines 744-751: the track is enabled and the unmute announced
unmuted(s, i) ==
    LET s1 == IF s.audioTrack # 0
              THEN [s EXCEPT !.tracks[s.audioTrack].enabled = TRUE] ELSE s
        s2 == Emit(s1, "unmute", "")
    IN Return(IF s2.ws # 0 THEN Send(s2, "unmute") ELSE s2, i)

\* the activation of unmute with addTrack on every call
activateAlwaysAdd(s, i) ==
    IF s.audioTrack = 0 THEN unmuted(s, i)
    ELSE IF s.peer = 0 THEN Throw(s, i, TypeError)
    ELSE Await(AddTrack(s), i, "peer.addTrack", s.peer, "added")

\* unmute, lines 735-745: the outbound track is attached to the peer
activate(s, i) ==
    IF s.audioTrack = 0 THEN unmuted(s, i)
    ELSE IF s.voiceTrackAdded
    THEN IF s.peer = 0 THEN Throw(s, i, TypeError)
         ELSE unmuted(Do(s, Eff("peer", "replaceTrack", "track")), i)
    ELSE IF s.stream # 0
    THEN IF s.peer = 0 THEN Throw(s, i, TypeError)
         ELSE Await(AddTrack(s), i, "peer.addTrack", s.peer, "added")
    ELSE unmuted(s, i)

\* unmute that goes on to activate when the microphone was not acquired
unmuteGoesOnAfterError(s, i) ==
    LET f == Top(s, i)
        r == Res(s, i)
        clearCache(t) == IF t.rtcMonitor # 0
                         THEN Do(t, Eff("rtcMonitor", "clearCache", "")) ELSE t
    IN CASE f.pc = "entry" ->
              IF s.peer = 0 THEN Return(s, i)
              ELSE IF s.audioTrack = 0 THEN Call(s, i, Frame("initAudio"), "initialized")
              ELSE activate(clearCache(s), i)
         [] f.pc = "initialized" ->
              IF r.k = "throw" THEN activate(clearCache(Emit(s, "error", r.err)), i)
              ELSE activate(clearCache(s), i)
         [] f.pc = "added" ->
              IF r.k = "throw" THEN Throw(s, i, r.err)
              ELSE unmuted([s EXCEPT !.voiceTrackAdded = TRUE], i)

\* unmute, lines 713-752
unmute(s, i) ==
    LET f == Top(s, i)
        r == Res(s, i)
        clearCache(t) == IF t.rtcMonitor # 0
                         THEN Do(t, Eff("rtcMonitor", "clearCache", "")) ELSE t
    IN CASE f.pc = "entry" ->
              IF s.peer = 0 THEN Return(s, i)
              ELSE IF s.audioTrack = 0 THEN Call(s, i, Frame("initAudio"), "initialized")
              ELSE activate(clearCache(s), i)
         [] f.pc = "initialized" ->
              IF r.k = "throw" THEN Return(Emit(s, "error", r.err), i)
              ELSE activate(clearCache(s), i)
         [] f.pc = "added" ->
              IF r.k = "throw" THEN Throw(s, i, r.err)
              ELSE unmuted([s EXCEPT !.voiceTrackAdded = TRUE], i)

\* a screen stream: a video track and, with audio, its audio track
NewScreenStream(s, withAudio) ==
    LET v == Len(s.tracks) + 1
        a == IF withAudio THEN v + 1 ELSE 0
    IN [s EXCEPT !.tracks = IF withAudio
                            THEN @ \o <<Track("video"), Track("audio")>>
                            ELSE Append(@, Track("video")),
                 !.mstreams = Append(@, IF withAudio THEN <<v, a>> ELSE <<v>>)]

\* the guard of setScreenStream without its test of this.localScreenTrack
setScreenStreamRefusedNoTrackTest(s) == s.ws = 0 \/ s.peer = 0

\* setScreenStream, line 779: the call returns at once (the stream passed
\* is never null here)
setScreenStreamRefused(s) == s.ws = 0 \/ s.peer = 0 \/ s.localScreenTrack # 0

\* setScreenStream, lines 778-830; the frame holds the stream passed
setScreenStream(s, i) ==
    LET f == Top(s, i)
        r == Res(s, i)
    IN CASE f.pc = "entry" ->
              IF setScreenStreamRefused(s) THEN Return(s, i)
              ELSE LET screenTrack == f.track
                       s1 == [s EXCEPT !.localScreenTrack = screenTrack,
                                       !.streams = Append(@, f.stream),
                                       !.tracks[screenTrack].onended = TRUE,
                                       !.tracks[screenTrack].audio = f.track2]
                   IN Await(Do(s1, Eff("peer", "addStream", "")), i,
                            "peer.addStream", s1.peer, "added")
         [] f.pc = "added" ->
              IF r.k = "throw" THEN Throw(s, i, r.err)
              ELSE IF Config.enableAV1 /\ s.av1Codec
                   THEN IF s.peer = 0 THEN Throw(s, i, TypeError)
                        ELSE Await(Do(s, Eff("peer", "addStream", "av1")), i,
                                   "peer.addStream", s.peer, "addedAV1")
                   ELSE Goto(s, i, "addedAV1")
         [] f.pc = "addedAV1" ->
              IF r.k = "throw" THEN Throw(s, i, r.err)
              ELSE IF s.ws = 0 THEN Throw(s, i, TypeError)
              ELSE Return(Emit(SendScreen(s, "screen_on"), "localScreenStream", ""), i)

\* screenTrack.onended that leaves this.localScreenTrack set
onendedKeepTrack(s, i) ==
    LET f == Top(s, i)
        r == Res(s, i)
    IN CASE f.pc = "entry" ->
              IF s.ws = 0 \/ s.peer = 0 THEN Return(s, i)
              ELSE Await(Do(s, Eff("peer", "removeTrack", "")), i,
                         "peer.removeTrack", s.peer, "removed")
         [] f.pc = "removed" ->
              IF r.k = "throw" THEN Throw(s, i, r.err)
              ELSE IF s.ws = 0 THEN Throw(s, i, TypeError)
              ELSE Return(SendScreen(s, "screen_off"), i)

\* screenTrack.onended, lines 796-809
onended(s, i) ==
    LET f == Top(s, i)
        r == Res(s, i)
    IN CASE f.pc = "entry" ->
              LET s1 == IF f.track2 # 0 THEN StopTrack(s, f.track2) ELSE s
                  s2 == [s1 EXCEPT !.localScreenTrack = 0]
              IN IF s2.ws = 0 \/ s2.peer = 0 THEN Return(s2, i)
                 ELSE Await(Do(s2, Eff("peer", "removeTrack", "")), i,
                            "peer.removeTrack", s2.peer, "removed")
         [] f.pc = "removed" ->
              IF r.k = "throw" THEN Throw(s, i, r.err)
              ELSE IF s.ws = 0 THEN Throw(s, i, TypeError)
              ELSE Return(SendScreen(s, "screen_off"), i)

\* the call on top of task i runs to its next await, return or throw
Step(s, i) ==
    LET fn == Top(s, i).fn
    IN CASE fn = "init" -> init(s, i)
         [] fn = "updateDevices" -> updateDevices(s, i)
         [] fn = "handleAudioDeviceFallback" -> handleAudioDeviceFallback(s, i)
         [] fn = "setAudioInputDevice" -> setAudioInputDevice(s, i)
         [] fn = "setAudioOutputDevice" -> setAudioOutputDevice(s, i)
         [] fn = "initAudio" -> initAudio(s, i)
         [] fn = "unmute" -> unmute(s, i)
         [] fn = "setScreenStream" -> setScreenStream(s, i)
         [] fn = "onended" -> onended(s, i)

\* a call that ended: a rejection nobody handles is all that is left of it
Finish(s, i) ==
    LET r == s.tasks[i].res
        s1 == [s EXCEPT !.tasks = RemoveAt(@, i)]
    IN IF r.k = "throw" THEN Do(s1, Eff("reject", "", r.err)) ELSE s1

\* task i runs until it awaits the browser or the peer, or ends
Exec(s, i) ==
    IF s.tasks[i].stack = <<>> THEN Finish(s, i)
    ELSE IF s.tasks[i].wait # "" THEN s
    ELSE Exec(Step(s, i), i)

(***************************************************************************)
(* Handlers of the transport's and the peer's events                       *)
(***************************************************************************)

\* ws 'error' handler, lines 427-441
wsOnError(s, type) ==
    CASE type = "Native" -> s
      [] type = "ReconnectTimeout" ->
            disconnect([s EXCEPT !.ws = 0], wsReconnectTimeoutErr)
      [] type = "Join" -> disconnect(s, wsJoinErr)

\* the joinData init is called with
JoinData == [channelID |-> "general"]

\* ws.send of an envelope with a payload
SendWith(s, n, payload) ==
    Do(s, [k |-> "ws.send", n |-> n, a |-> "", payload |-> payload])

\* ws 'open' handler that sends 'join' on every open
wsOnOpenAlwaysJoin(s, originalConnID, prevConnID, isReconnect) == Send(s, "join")

\* ws 'open' handler, lines 447-459
wsOnOpen(s, originalConnID, prevConnID, isReconnect) ==
    IF isReconnect
    THEN SendWith(s, "reconnect", [channelID |-> JoinData.channelID,
                                   originalConnID |-> originalConnID,
                                   prevConnID |-> prevConnID])
    ELSE Send(s, "join")

\* JSON.parse of the data of a transport message: the text "null" parses
\* to null, text that is not JSON throws, an envelope parses to an object
\* with its type
JSONparse(data) ==
    IF data = "null" THEN [k |-> "null", type |-> ""]
    ELSE IF data = "not json" THEN [k |-> "throw", type |-> ""]
    ELSE [k |-> "object", type |-> data]

\* ws 'message' handler that hands over envelopes of any type
wsOnMessageAnyType(s, data) ==
    LET msg == JSONparse(data)
        s1 == [s EXCEPT !.delivered = Append(@, [data |-> data, peer |-> s.peer])]
    IN IF msg.k = "throw" THEN Do(s1, Eff("reject", "", "SyntaxError"))
       ELSE IF msg.k = "null" THEN s1
       ELSE IF s1.peer # 0
            THEN Do([s1 EXCEPT !.signalled =
                        Append(@, [msg |-> Len(s1.delivered), peer |-> s1.peer])],
                    Eff("peer", "signal", data))
            ELSE s1

\* ws 'message' handler, lines 553-563. The handler runs up to its call of
\* peer.signal without a pause; nothing follows the await of that call.
wsOnMessage(s, data) ==
    LET msg == JSONparse(data)
        s1 == [s EXCEPT !.delivered = Append(@, [data |-> data, peer |-> s.peer])]
    IN IF msg.k = "throw" THEN Do(s1, Eff("reject", "", "SyntaxError"))
       ELSE IF msg.k = "null" THEN s1
       ELSE IF msg.type = "answer" \/ msg.type = "offer" \/ msg.type = "candidate"
            THEN IF s1.peer # 0
                 THEN Do([s1 EXCEPT !.signalled =
                             Append(@, [msg |-> Len(s1.delivered), peer |-> s1.peer])],
                         Eff("peer", "signal", data))
                 ELSE s1
            ELSE s1

\* ws 'join' handler, lines 461-551: the peer and its monitor are constructed.
\* collectICEStats, which changes no field and sends 'metric' telemetry on a
\* timer, is left out.
wsOnJoin(s) ==
    LET id == Len(s.peers) + 1
    IN Do([s EXCEPT !.peers = Append(@, [destroys |-> 0, monitor |-> "idle", voiceAdds |-> 0]),
                    !.peer = id, !.rtcMonitor = id],
          Eff("peer", "new", ""))

\* peer 'error' handler, lines 512-517
peerOnError(s, err) ==
    IF ~s.closed
    THEN disconnect(s, IF err = rtcPeerTimeoutErr THEN rtcPeerTimeoutErr ELSE rtcPeerErr)
    ELSE s

\* peer 'close' handler, lines 544-550
peerOnClose(s) ==
    IF ~s.closed THEN disconnect(s, rtcPeerCloseErr) ELSE s

\* peer 'connect' handler, lines 536-542
peerOnConnect(s) ==
    LET s1 == Emit(s, "connect", "")
        s2 == IF s1.rtcMonitor # 0
              THEN Do([s1 EXCEPT !.peers[s1.rtcMonitor].monitor = "running"],
                      Eff("rtcMonitor", "start", ""))
              ELSE s1
    IN [s2 EXCEPT !.connected = TRUE]

\* peer 'stream' handler, lines 519-534, for a stream of one track
peerOnStream(s, kind) ==
    LET track == Len(s.tracks) + 1
        remoteStream == Len(s.mstreams) + 1
        s1 == [s EXCEPT !.tracks = Append(@, Track(kind)),
                        !.mstreams = Append(@, <<track>>),
                        !.streams = Append(@, remoteStream)]
    IN IF kind = "audio"
       THEN [Emit(s1, "remoteVoiceStream", "") EXCEPT !.remoteVoiceTracks = Append(@, track)]
       ELSE [Emit(s1, "remoteScreenStream", "") EXCEPT !.remoteScreenTrack = track]

(***************************************************************************)
(* The client's actions: calls of its methods, and events of the browser,  *)
(* the transport and the peer                                              *)
(***************************************************************************)

\* a step starts: nothing done yet
Begin == [client EXCEPT !.out = <<>>]

\* the first fatal event of a client that is not closed
Fatal(s, path, err) ==
    IF s.closed \/ s.cause.path # ""
    THEN s
    ELSE [s EXCEPT !.cause = [path |-> path, err |-> err]]

TaskSlot == Len(client.tasks) < MaxTasks
StreamSlot == Len(client.mstreams) < MaxStreams
AlivePeers == {p \in 1..Len(client.peers) : client.peers[p].destroys = 0}

CallInit(secure) ==
    /\ ~client.initCalled
    /\ client' = Spawn([Begin EXCEPT !.initCalled = TRUE],
                       [Frame("init") EXCEPT !.flag = secure])

CallDisconnect(err) ==
    client' = disconnect(Fatal(Begin, "disconnect", err), err)

CallMute ==
    client' = mute(Begin)

\* unmute() is called while fewer than maxTasks calls are in flight
UnmuteCalled(maxTasks) ==
    /\ Len(client.tasks) < maxTasks
    /\ client' = Spawn(Begin, Frame("unmute"))

CallUnmute == UnmuteCalled(MaxTasks)

\* setAudioInputDevice(device, store) is called
SetAudioInputDeviceCalled(device, store, maxTasks) ==
    /\ Len(client.tasks) < maxTasks
    /\ client' = Spawn(Begin, [Frame("setAudioInputDevice") EXCEPT
                                  !.device = device, !.store = store])

\* setAudioOutputDevice(device, store) is called
SetAudioOutputDeviceCalled(device, store, maxTasks) ==
    /\ Len(client.tasks) < maxTasks
    /\ client' = Spawn(Begin, [Frame("setAudioOutputDevice") EXCEPT
                                  !.device = device, !.store = store])

\* setScreenStream(stream) is called with a stream the browser captured,
\* while fewer than maxTasks calls are in flight and fewer than maxStreams
\* streams exist
SetScreenStreamCalled(withAudio, maxTasks, maxStreams) ==
    /\ Len(client.tasks) < maxTasks /\ Len(client.mstreams) < maxStreams
    /\ LET s == NewScreenStream(Begin, withAudio)
           stream == Len(s.mstreams)
       IN client' = Spawn(s, [Frame("setScreenStream") EXCEPT
                                 !.stream = stream,
                                 !.track = s.mstreams[stream][1],
                                 !.track2 = IF withAudio THEN s.mstreams[stream][2] ELSE 0])

CallSetScreenStream(withAudio) == SetScreenStreamCalled(withAudio, MaxTasks, MaxStreams)

CallUnshareScreen ==
    client' = unshareScreen(Begin)

\* the browser ends the captured source of the screen track
ScreenTrackEnded(id) ==
    /\ client.tracks[id].onended
    /\ client.tracks[id].readyState = "live"
    /\ client' = DispatchEnded([Begin EXCEPT !.tracks[id].readyState = "ended"], id)

\* a promise of the browser or of the peer settles, and the call awaiting it
\* goes on
Settle(i, res) ==
    LET s == Begin
    IN client' = Exec([s EXCEPT !.tasks[i].wait = "", !.tasks[i].wpeer = 0,
                                !.tasks[i].res = res], i)

GetUserMediaResolves(i) ==
    /\ client.tasks[i].wait = "getUserMedia"
    /\ StreamSlot
    /\ LET s == NewAudioStream(Begin)
       IN client' = Exec([s EXCEPT !.tasks[i].wait = "",
                                   !.tasks[i].res = [Ok EXCEPT !.stream = Len(s.mstreams)]], i)

GetUserMediaRejects(i) ==
    /\ client.tasks[i].wait = "getUserMedia"
    /\ Settle(i, Thrown("NotAllowedError"))

EnumerateDevicesSettles(i, res) ==
    /\ client.tasks[i].wait = "enumerateDevices"
    /\ Settle(i, res)

GetVideoCodecResolves(i, codec) ==
    /\ client.tasks[i].wait = "getVideoCodec"
    /\ Settle(i, [Ok EXCEPT !.flag = codec])

\* addTrack, addStream, removeTrack of a peer resolve; on a peer destroyed
\* meanwhile they resolve or reject
PeerCallSettles(i, res) ==
    /\ client.tasks[i].wpeer # 0
    /\ res.k = "throw" => client.peers[client.tasks[i].wpeer].destroys > 0
    /\ Settle(i, res)

\* the identifiers of its connections the transport passes to 'open'
ConnIDs == {"conn1", "conn2"}

\* the transport reports an open that follows a drop as a reconnect
IsReconnect(s) == s.wsState = "reconnecting"

WsOpen ==
    /\ client.wsState \in {"connecting", "reconnecting"}
    /\ \E prevConnID \in IF IsReconnect(client) THEN ConnIDs ELSE {""} :
          client' = wsOnOpen([Begin EXCEPT !.wsState = "open"],
                             "conn1", prevConnID, IsReconnect(client))

\* the connection drops and the transport starts to reconnect
WsDrop ==
    /\ client.wsState = "open"
    /\ client' = wsOnError([Begin EXCEPT !.wsState = "reconnecting"], "Native")

WsReconnectTimeout ==
    /\ client.wsState = "reconnecting"
    /\ client' = wsOnError(Fatal([Begin EXCEPT !.wsState = "timedout"],
                                 "ws:ReconnectTimeout", wsReconnectTimeoutErr),
                           "ReconnectTimeout")

WsJoinError ==
    /\ client.wsState = "open"
    /\ client' = wsOnError(Fatal(Begin, "ws:Join", wsJoinErr), "Join")

\* the transport delivers a join acknowledgment, at most maxPeers of them
JoinAcknowledged(maxPeers) ==
    /\ client.wsState = "open"
    /\ Len(client.peers) < maxPeers
    /\ client' = wsOnJoin(Begin)

WsJoin == JoinAcknowledged(MaxPeers)

PeerError(p, err) ==
    /\ p \in 1..Len(client.peers)
    /\ client' = peerOnError(Fatal(Begin, "peer:error", err), err)

PeerClose(p) ==
    /\ p \in 1..Len(client.peers)
    /\ client' = peerOnClose(Fatal(Begin, "peer:close", rtcPeerCloseErr))

PeerConnect(p) ==
    /\ p \in AlivePeers
    /\ client' = peerOnConnect(Begin)

PeerStream(p, kind) ==
    /\ p \in AlivePeers
    /\ StreamSlot
    /\ client' = peerOnStream(Begin, kind)

\* the client as its constructor leaves it, lines 149-172, in a browser with
\* one microphone and one speaker and no stored preference
NewClient ==
    [
        \* the fields of CallsClient, lines 127-147
        closed |-> FALSE, connected |-> FALSE, ws |-> 0, peer |-> 0,
        rtcMonitor |-> 0, audioTrack |-> 0, stream |-> 0, streams |-> <<>>,
        voiceTrackAdded |-> FALSE, localScreenTrack |-> 0,
        remoteScreenTrack |-> 0, remoteVoiceTracks |-> <<>>,
        currentAudioInputDevice |-> NoDev, currentAudioOutputDevice |-> NoDev,
        audioDevices |-> [inputs |-> <<>>, outputs |-> <<>>],
        av1Codec |-> FALSE, listening |-> FALSE,
        \* the browser: tracks, streams, devices, localStorage
        tracks |-> <<>>, mstreams |-> <<>>,
        devInputs |-> <<mic1>>, devOutputs |-> <<spk1>>,
        storedInput |-> NoPreference, storedOutput |-> NoPreference,
        \* the peers constructed, the transport
        peers |-> <<>>, wsState |-> "none", wsMade |-> 0, wsCloses |-> 0,
        \* the asynchronous calls in flight
        tasks |-> <<>>, initCalled |-> FALSE,
        \* what the last step did, and what the client did so far
        out |-> <<>>, cause |-> [path |-> "", err |-> NoErr],
        teardowns |-> 0, closeEmits |-> 0, closeErr |-> NoErr,
        \* 'devicefallback' events emitted, per kind, since the browser's
        \* device list last changed (2 stands for two or more)
        fallbacks |-> [input |-> 0, output |-> 0],
        \* the transport messages delivered, each with the peer the client
        \* held then, and the ones handed to a peer, in order
        delivered |-> <<>>, signalled |-> <<>>,
        \* the last of 'screen_on' and 'screen_off' the client sent
        lastScreen |-> "" ]

ClientInit == client = NewClient

ClientNext ==
    \/ (\E secure \in BOOLEAN : CallInit(secure)) /\ UNCHANGED serverVars
    \/ (\E err \in {NoErr, "user has left channel"} : CallDisconnect(err)) /\ UNCHANGED serverVars
    \/ CallMute /\ UNCHANGED serverVars
    \/ CallUnmute /\ UNCHANGED serverVars
    \/ (\E withAudio \in BOOLEAN : CallSetScreenStream(withAudio)) /\ UNCHANGED serverVars
    \/ CallUnshareScreen /\ UNCHANGED serverVars
    \/ (\E id \in 1..Len(client.tracks) : ScreenTrackEnded(id)) /\ UNCHANGED serverVars
    \/ (\E i \in 1..Len(client.tasks) : GetUserMediaResolves(i)) /\ UNCHANGED serverVars
    \/ (\E i \in 1..Len(client.tasks) : GetUserMediaRejects(i)) /\ UNCHANGED serverVars
    \/ (\E i \in 1..Len(client.tasks), res \in {Ok, Thrown("NotFoundError")} :
          EnumerateDevicesSettles(i, res)) /\ UNCHANGED serverVars
    \/ (\E i \in 1..Len(client.tasks), codec \in BOOLEAN : GetVideoCodecResolves(i, codec)) /\ UNCHANGED serverVars
    \/ (\E i \in 1..Len(client.tasks), res \in {Ok, Thrown("peer destroyed")} :
          PeerCallSettles(i, res)) /\ UNCHANGED serverVars
    \/ WsOpen /\ UNCHANGED serverVars
    \/ WsDrop /\ UNCHANGED serverVars
    \/ WsReconnectTimeout /\ UNCHANGED serverVars
    \/ WsJoinError /\ UNCHANGED serverVars
    \/ WsJoin /\ UNCHANGED serverVars
    \/ (\E p \in 1..Len(client.peers), err \in {rtcPeerTimeoutErr, "ice failed"} :
          PeerError(p, err)) /\ UNCHANGED serverVars
    \/ (\E p \in 1..Len(client.peers) : PeerClose(p)) /\ UNCHANGED serverVars
    \/ (\E p \in 1..Len(client.peers) : PeerConnect(p)) /\ UNCHANGED serverVars
    \/ (\E p \in 1..Len(client.peers), kind \in {"audio", "video"} : PeerStream(p, kind)) /\ UNCHANGED serverVars

(***************************************************************************)
(* Specifications                                                          *)
(***************************************************************************)

ServerInit ==
    /\ sessions = [u \in Users |-> NoSession]
    /\ kv \in [Channels -> {Nil, channelState(Nil)}]
    /\ kvVersion = [c \in Channels |-> 0]
    /\ nextId = 0
    /\ g = [p \in Procs |-> Idle]
    /\ calls = 0
    /\ hist = <<>>

Init == ServerInit /\ ClientInit

\* goroutines are interchangeable: a new call takes the first one that is free
FreeProc(p) ==
    /\ g[p].pc = "idle"
    /\ p = "g1" \/ g["g1"].pc # "idle"

AllIdle == \A p \in Procs : g[p].pc = "idle"

\* the record of a call that returned
Returned(c) ==
    [op |-> c.op, userID |-> c.userID, channelID |-> c.channelID,
     st |-> c.st, err |-> c.err]

\* calls of any users and channels, run concurrently
Next ==
    \/ \E p \in Procs, u \in Users, c \in Channels :
          calls < MaxCalls /\ FreeProc(p) /\ AddRegister(p, u, c) /\ UNCHANGED <<hist, client>>
    \/ \E p \in Procs, u \in Users, c \in Channels :
          calls < MaxCalls /\ FreeProc(p) /\ RemoveRegister(p, u, c) /\ UNCHANGED <<hist, client>>
    \/ \E p \in Procs : TxnRead(p) /\ UNCHANGED <<hist, client>>
    \/ \E p \in Procs : TxnCas(p) /\ UNCHANGED <<hist, client>>

Spec == Init /\ [][Next]_vars

\* calls run one after the other, each recorded in hist when it returns
Record(p) ==
    /\ hist' = IF g'[p].pc = "idle" THEN Append(hist, Returned(g'[p])) ELSE hist
    /\ UNCHANGED client

SerialNext ==
    \/ \E u \in Users, c \in Channels :
          calls < MaxSerialCalls /\ AllIdle /\ AddRegister("g1", u, c) /\ UNCHANGED <<hist, client>>
    \/ \E u \in Users, c \in Channels :
          calls < MaxSerialCalls /\ AllIdle /\ RemoveRegister("g1", u, c) /\ UNCHANGED <<hist, client>>
    \/ \E p \in Procs : TxnRead(p) /\ Record(p)
    \/ \E p \in Procs : TxnCas(p) /\ Record(p)

SpecSerial == Init /\ [][SerialNext]_vars

\* calls a behaviour of SpecPerUser starts
MaxUserCalls == 5

\* no call of this user is in flight
UserIdle(u) == \A p \in Procs : g[p].pc = "idle" \/ g[p].userID # u

\* the server with every channel initialized
InitServer ==
    /\ ServerInit
    /\ kv = [c \in Channels |-> channelState(Nil)]
    /\ ClientInit

\* calls of different users on one channel run concurrently, the calls of
\* one user one after the other; each is recorded in hist when it returns
PerUserNext ==
    \/ \E p \in Procs, u \in Users :
          /\ calls < MaxUserCalls /\ FreeProc(p) /\ UserIdle(u)
          /\ AddRegister(p, u, "general") /\ UNCHANGED <<hist, client>>
    \/ \E p \in Procs, u \in Users :
          /\ calls < MaxUserCalls /\ FreeProc(p) /\ UserIdle(u)
          /\ RemoveRegister(p, u, "general") /\ UNCHANGED <<hist, client>>
    \/ \E p \in Procs : TxnRead(p) /\ Record(p)
    \/ \E p \in Procs : TxnCas(p) /\ Record(p)

SpecPerUser == InitServer /\ [][PerUserNext]_vars

\* calls a behaviour of SpecRegistry starts
MaxRegistryCalls == 3

\* calls of different users on any channels run concurrently, the calls of
\* one user one after the other; a channel may have no record in the store
RegistryNext ==
    \/ \E p \in Procs, u \in Users, c \in Channels :
          /\ calls < MaxRegistryCalls /\ FreeProc(p) /\ UserIdle(u)
          /\ AddRegister(p, u, c) /\ UNCHANGED <<hist, client>>
    \/ \E p \in Procs, u \in Users, c \in Channels :
          /\ calls < MaxRegistryCalls /\ FreeProc(p) /\ UserIdle(u)
          /\ RemoveRegister(p, u, c) /\ UNCHANGED <<hist, client>>
    \/ \E p \in Procs : TxnRead(p) /\ Record(p)
    \/ \E p \in Procs : TxnCas(p) /\ Record(p)

SpecRegistry == Init /\ [][RegistryNext]_vars

\* every call in flight gets to take its steps
SpecFair ==
    /\ Init /\ [][Next]_vars
    /\ \A p \in Procs : WF_vars(TxnRead(p) /\ UNCHANGED <<hist, client>>)
    /\ \A p \in Procs : WF_vars(TxnCas(p) /\ UNCHANGED <<hist, client>>)

\* one client, from its construction on
InitClient ==
    /\ ServerInit
    /\ kv = [c \in Channels |-> channelState(Nil)]
    /\ ClientInit

SpecClient == InitClient /\ [][ClientNext]_vars

(***************************************************************************)
(* The client and the browser's audio devices                              *)
(***************************************************************************)

\* asynchronous calls in flight at once while devices come and go
MaxDevTasks == 2

\* the device lists enumerateDevices can answer with
InputLists == {<<mic1>>, <<mic2>>, <<mic2, mic1>>}
OutputLists == {<<spk1>>, <<spk2>>}

\* onDeviceChange, lines 164-166, registered by init at line 412
onDeviceChange(s) ==
    IF s.listening THEN Spawn(s, Frame("updateDevices")) ELSE s

\* the browser fires 'devicechange': devices were plugged or unplugged, or
\* the event repeats for a list that is as it was
DeviceChange(inputs, outputs) ==
    /\ Len(client.tasks) < MaxDevTasks
    /\ LET same == inputs = client.devInputs /\ outputs = client.devOutputs
           s == [Begin EXCEPT !.devInputs = inputs, !.devOutputs = outputs,
                              !.fallbacks = IF same THEN @
                                            ELSE [input |-> 0, output |-> 0]]
       IN client' = onDeviceChange(s)

DevicesNext ==
    \/ CallInit(TRUE) /\ UNCHANGED serverVars
    \/ (\E i \in 1..Len(client.tasks) : GetVideoCodecResolves(i, FALSE)) /\ UNCHANGED serverVars
    \/ (\E i \in 1..Len(client.tasks) : EnumerateDevicesSettles(i, Ok)) /\ UNCHANGED serverVars
    \/ (\E i \in 1..Len(client.tasks) : GetUserMediaResolves(i)) /\ UNCHANGED serverVars
    \/ (\E i \in 1..Len(client.tasks) : GetUserMediaRejects(i)) /\ UNCHANGED serverVars
    \/ WsOpen /\ UNCHANGED serverVars
    \/ WsJoin /\ UNCHANGED serverVars
    \/ (\E inputs \in InputLists, outputs \in OutputLists :
          DeviceChange(inputs, outputs)) /\ UNCHANGED serverVars
    \/ CallDisconnect(NoErr) /\ UNCHANGED serverVars

\* a client constructed in a browser that may hold a stored preference for
\* the microphone and for the speaker
InitDevices ==
    /\ ServerInit
    /\ kv = [c \in Channels |-> channelState(Nil)]
    /\ \E storedInput \in {NoPreference, mic1}, storedOutput \in {NoPreference, spk1} :
          client = [NewClient EXCEPT !.storedInput = storedInput,
                                     !.storedOutput = storedOutput]

SpecDevices == InitDevices /\ [][DevicesNext]_vars

(***************************************************************************)
(* The client and the messages of the transport                            *)
(***************************************************************************)

\* messages the transport delivers in one behaviour
MaxMessages == 3

\* the data of the messages: signaling envelopes, another envelope, the
\* text null, and text that is not JSON
MessageData == {"offer", "answer", "candidate", "user_joined", "null", "not json"}

\* the transport delivers a message; its handlers stay registered when the
\* transport is closed
WsMessage(data) ==
    /\ client.wsState \in {"open", "reconnecting", "closed", "timedout"}
    /\ Len(client.delivered) < MaxMessages
    /\ client' = wsOnMessage(Begin, data)

SignalNext ==
    \/ CallInit(TRUE) /\ UNCHANGED serverVars
    \/ (\E i \in 1..Len(client.tasks) : GetVideoCodecResolves(i, FALSE)) /\ UNCHANGED serverVars
    \/ (\E i \in 1..Len(client.tasks) : EnumerateDevicesSettles(i, Ok)) /\ UNCHANGED serverVars
    \/ (\E i \in 1..Len(client.tasks) : GetUserMediaResolves(i)) /\ UNCHANGED serverVars
    \/ WsOpen /\ UNCHANGED serverVars
    \/ WsDrop /\ UNCHANGED serverVars
    \/ WsReconnectTimeout /\ UNCHANGED serverVars
    \/ WsJoin /\ UNCHANGED serverVars
    \/ (\E data \in MessageData : WsMessage(data)) /\ UNCHANGED serverVars
    \/ (\E p \in 1..Len(client.peers) : PeerClose(p)) /\ UNCHANGED serverVars
    \/ CallDisconnect(NoErr) /\ UNCHANGED serverVars

SpecSignal == InitClient /\ [][SignalNext]_vars

(***************************************************************************)
(* The client while screens are shared                                     *)
(***************************************************************************)

\* calls in flight at once, and streams in one behaviour, while screens are
\* shared
MaxScreenTasks == 2
MaxScreenStreams == 3

ScreenNext ==
    \/ CallInit(TRUE) /\ UNCHANGED serverVars
    \/ (\E i \in 1..Len(client.tasks), codec \in BOOLEAN : GetVideoCodecResolves(i, codec)) /\ UNCHANGED serverVars
    \/ (\E i \in 1..Len(client.tasks) : EnumerateDevicesSettles(i, Ok)) /\ UNCHANGED serverVars
    \/ (\E i \in 1..Len(client.tasks) : GetUserMediaResolves(i)) /\ UNCHANGED serverVars
    \/ WsOpen /\ UNCHANGED serverVars
    \/ WsJoin /\ UNCHANGED serverVars
    \/ (\E withAudio \in BOOLEAN :
          SetScreenStreamCalled(withAudio, MaxScreenTasks, MaxScreenStreams)) /\ UNCHANGED serverVars
    \/ (\E i \in 1..Len(client.tasks), res \in {Ok, Thrown("peer destroyed")} :
          PeerCallSettles(i, res)) /\ UNCHANGED serverVars
    \/ (\E id \in 1..Len(client.tracks) : ScreenTrackEnded(id)) /\ UNCHANGED serverVars
    \/ CallUnshareScreen /\ UNCHANGED serverVars
    \/ (\E p \in 1..Len(client.peers) : PeerClose(p)) /\ UNCHANGED serverVars
    \/ CallDisconnect(NoErr) /\ UNCHANGED serverVars

SpecScreen == InitClient /\ [][ScreenNext]_vars

(***************************************************************************)
(* The client while the user mutes, unmutes and chooses devices            *)
(***************************************************************************)

\* calls in flight at once while the user mutes, unmutes and chooses devices
MaxAudioTasks == 1

\* the devices the user chooses in place of the ones in use
InputChoices == {mic2}
OutputChoices == {spk2}

AudioNext ==
    \/ CallInit(TRUE) /\ UNCHANGED serverVars
    \/ (\E i \in 1..Len(client.tasks) : GetVideoCodecResolves(i, FALSE)) /\ UNCHANGED serverVars
    \/ (\E i \in 1..Len(client.tasks) : EnumerateDevicesSettles(i, Ok)) /\ UNCHANGED serverVars
    \/ (\E i \in 1..Len(client.tasks) : GetUserMediaResolves(i)) /\ UNCHANGED serverVars
    \/ (\E i \in 1..Len(client.tasks) : GetUserMediaRejects(i)) /\ UNCHANGED serverVars
    \/ WsOpen /\ UNCHANGED serverVars
    \/ WsJoin /\ UNCHANGED serverVars
    \/ CallMute /\ UNCHANGED serverVars
    \/ UnmuteCalled(MaxAudioTasks) /\ UNCHANGED serverVars
    \/ (\E device \in InputChoices :
          SetAudioInputDeviceCalled(device, TRUE, MaxAudioTasks)) /\ UNCHANGED serverVars
    \/ (\E device \in OutputChoices, store \in BOOLEAN :
          SetAudioOutputDeviceCalled(device, store, MaxAudioTasks)) /\ UNCHANGED serverVars
    \/ (\E i \in 1..Len(client.tasks), res \in {Ok, Thrown("peer destroyed")} :
          PeerCallSettles(i, res)) /\ UNCHANGED serverVars
    \/ CallDisconnect(NoErr) /\ UNCHANGED serverVars

\* a client constructed in a browser with two microphones and two speakers
InitAudio ==
    /\ ServerInit
    /\ kv = [c \in Channels |-> channelState(Nil)]
    /\ client = [NewClient EXCEPT !.devInputs = <<mic1, mic2>>,
                                  !.devOutputs = <<spk1, spk2>>]

SpecAudio == InitAudio /\ [][AudioNext]_vars

(***************************************************************************)
(* The client and the join acknowledgments of the transport                *)
(***************************************************************************)

\* join acknowledgments the transport delivers in one behaviour
MaxJoins == 2

JoinNext ==
    \/ CallInit(TRUE) /\ UNCHANGED serverVars
    \/ (\E i \in 1..Len(client.tasks) : GetVideoCodecResolves(i, FALSE)) /\ UNCHANGED serverVars
    \/ (\E i \in 1..Len(client.tasks) : EnumerateDevicesSettles(i, Ok)) /\ UNCHANGED serverVars
    \/ (\E i \in 1..Len(client.tasks) : GetUserMediaResolves(i)) /\ UNCHANGED serverVars
    \/ WsOpen /\ UNCHANGED serverVars
    \/ WsDrop /\ UNCHANGED serverVars
    \/ JoinAcknowledged(MaxJoins) /\ UNCHANGED serverVars
    \/ (\E p \in 1..Len(client.peers) : PeerConnect(p)) /\ UNCHANGED serverVars
    \/ (\E p \in 1..Len(client.peers), kind \in {"audio", "video"} : PeerStream(p, kind)) /\ UNCHANGED serverVars
    \/ (\E p \in 1..Len(client.peers) : PeerClose(p)) /\ UNCHANGED serverVars
    \/ CallDisconnect(NoErr) /\ UNCHANGED serverVars

SpecJoin == InitClient /\ [][JoinNext]_vars

(***************************************************************************)
(* The client and the stored preference for a device                       *)
(***************************************************************************)

\* devices of one kind the browser enumerates at once
MaxDevices == 2

\* a second microphone and a second speaker of the same make as the first:
\* another identifier, the same label
mic3 == [deviceId |-> "mic3", label |-> "Mic 1"]
spk3 == [deviceId |-> "spk3", label |-> "Speaker 1"]

\* the lists of at most MaxDevices different devices out of a pool
RECURSIVE ListsOf(_, _)
ListsOf(pool, n) ==
    IF n = 0 THEN {<<>>}
    ELSE LET shorter == ListsOf(pool, n - 1)
         IN shorter \cup
            {Append(l, d) : l \in {x \in shorter : Len(x) = n - 1},
                            d \in pool}

\* no device listed twice
Distinct(l) == \A j, k \in 1..Len(l) : l[j] = l[k] => j = k

SelectInputLists == {l \in ListsOf({mic1, mic2, mic3}, MaxDevices) : Distinct(l)}
SelectOutputLists == {l \in ListsOf({spk1, spk2, spk3}, MaxDevices) : Distinct(l)}

\* what localStorage may hold for a kind: nothing, the JSON of a device, the
\* bare identifier stored by earlier versions, the JSON of a device whose
\* identifier the browser has changed since, and the JSON of a device whose
\* identifier now belongs to a device with another label
InputPreferences ==
    {NoPreference, mic1,
     [deviceId |-> "mic1", label |-> Undefined],
     [deviceId |-> "mic0", label |-> "Mic 1"],
     [deviceId |-> "mic2", label |-> "Mic 1"]}
OutputPreferences ==
    {NoPreference, spk1,
     [deviceId |-> "spk0", label |-> "Speaker 1"]}

SelectNext ==
    \/ CallInit(TRUE) /\ UNCHANGED serverVars
    \/ (\E i \in 1..Len(client.tasks) : GetVideoCodecResolves(i, FALSE)) /\ UNCHANGED serverVars
    \/ (\E i \in 1..Len(client.tasks) : EnumerateDevicesSettles(i, Ok)) /\ UNCHANGED serverVars
    \/ (\E i \in 1..Len(client.tasks) : GetUserMediaResolves(i)) /\ UNCHANGED serverVars
    \/ (\E i \in 1..Len(client.tasks) : GetUserMediaRejects(i)) /\ UNCHANGED serverVars

\* a client constructed in a browser with some devices and some stored
\* preference for each kind
InitSelect ==
    /\ ServerInit
    /\ kv = [c \in Channels |-> channelState(Nil)]
    /\ \E storedInput \in InputPreferences, storedOutput \in OutputPreferences,
          inputs \in SelectInputLists, outputs \in SelectOutputLists :
          client = [NewClient EXCEPT !.storedInput = storedInput,
                                     !.storedOutput = storedOutput,
                                     !.devInputs = inputs,
                                     !.devOutputs = outputs]

SpecSelect == InitSelect /\ [][SelectNext]_vars

(***************************************************************************)
(* Claims about the server                                                 *)
(***************************************************************************)

\* C1: in every reachable state of the store, for every channel that has a
\* record, the call sub-record is present iff the member set is non-empty.
C1_CallIffMembers ==
    \A ch \in Channels :
        kv[ch] # Nil => ((kv[ch].Call # Nil) <=> (Members(kv[ch]) # {}))

\* a call was created and cleared again while a concurrent transaction on the
\* same channel had to retry
C1_Witness ==
    \E ch \in Channels, p \in Procs :
        /\ kv[ch] = channelState(Nil)
        /\ kvVersion[ch] >= 2
        /\ g[p].channelID = ch
        /\ g[p].attempts > 0

\* C2: two addUserSession calls for the same initialized channel and two
\* different users that run concurrently both return without error, and the
\* persisted member set holds both users.
C2_NoLostUpdate ==
    \A p, q \in Procs :
        ( /\ p # q
          /\ calls = 2
          /\ g[p].pc = "idle" /\ g[q].pc = "idle"
          /\ g[p].op = "add" /\ g[q].op = "add"
          /\ g[p].channelID = g[q].channelID
          /\ g[p].userID # g[q].userID
          /\ kv[g[p].channelID] # Nil )
        => /\ g[p].err = ErrNone /\ g[q].err = ErrNone
           /\ Members(kv[g[p].channelID]) = {g[p].userID, g[q].userID}
           /\ g[p].userID \in Members(g[p].st)
           /\ g[q].userID \in Members(g[q].st)

\* both joins returned, and the one that lost the compare-and-swap retried
C2_Witness ==
    \E p, q \in Procs :
        /\ p # q
        /\ calls = 2
        /\ g[p].pc = "idle" /\ g[q].pc = "idle"
        /\ g[p].op = "add" /\ g[q].op = "add"
        /\ g[p].channelID = g[q].channelID
        /\ g[p].userID # g[q].userID
        /\ kv[g[p].channelID] # Nil
        /\ g[q].attempts = 1

\* C3: addUserSession on a channel with no channel-level record returns the
\* channel-state-missing error and persists nothing; no step ever gives a
\* channel without a record one.
C3_AddNeedsChannelState ==
    [][ /\ \A ch \in Channels :
              kv[ch] = Nil => kv'[ch] = Nil /\ kvVersion'[ch] = kvVersion[ch]
        /\ \A p \in Procs :
              ( /\ g[p].pc = "txn" /\ g[p].op = "add"
                /\ kv[g[p].channelID] = Nil
                /\ g'[p] # g[p] )
              => /\ g'[p].pc = "idle"
                 /\ g'[p].err = ErrChannelStateMissing
                 /\ kv' = kv /\ kvVersion' = kvVersion ]_vars

\* a join to a channel without a record has returned its error
C3_Witness ==
    \E p \in Procs :
        /\ g[p].pc = "idle" /\ g[p].op = "add"
        /\ kv[g[p].channelID] = Nil
        /\ g[p].err = ErrChannelStateMissing

\* C4: removeUserSession returns the channel-state-missing error when the
\* record is absent and the call-state-missing error when the record has no
\* call; either way the persisted record stays as it was.
C4_RemoveErrors ==
    [][ \A p \in Procs :
          ( /\ g[p].pc = "txn" /\ g[p].op = "remove"
            /\ g'[p] # g[p]
            /\ kv[g[p].channelID] = Nil \/ kv[g[p].channelID].Call = Nil )
          => /\ g'[p].pc = "idle"
             /\ g'[p].err = IF kv[g[p].channelID] = Nil
                            THEN ErrChannelStateMissing ELSE ErrCallStateMissing
             /\ kv' = kv /\ kvVersion' = kvVersion ]_vars

\* one leave has returned each of the two errors
C4_Witness ==
    \E p, q \in Procs :
        /\ g[p].pc = "idle" /\ g[p].op = "remove"
        /\ g[p].err = ErrChannelStateMissing /\ kv[g[p].channelID] = Nil
        /\ g[q].pc = "idle" /\ g[q].op = "remove"
        /\ g[q].err = ErrCallStateMissing /\ kv[g[q].channelID] = channelState(Nil)

\* the calls of hist made on channel ch
OnChannel(ch) == SelectSeq(hist, LAMBDA e : e.channelID = ch)

\* join(a), join(b), leave(a), leave(b) and the member sets they leave
Scenario(a, b) ==
    << [op |-> "add", userID |-> a], [op |-> "add", userID |-> b],
       [op |-> "remove", userID |-> a], [op |-> "remove", userID |-> b] >>
ScenarioMembers(a, b) == << {a}, {a, b}, {b}, {} >>

\* the first k calls made on ch are the first k calls of the scenario
Follows(h, a, b, k) ==
    /\ Len(h) >= k
    /\ \A i \in 1..k : /\ h[i].op = Scenario(a, b)[i].op
                       /\ h[i].userID = Scenario(a, b)[i].userID

\* C5: on an initialized channel with no call, the serial calls join(A),
\* join(B), leave(A), leave(B) return, without error, a record with a newly
\* created call of members {A}, then {A,B}, then {B}, then no call at all,
\* and each returned record is the persisted one.
C5_Scenario ==
    \A ch \in Channels, a \in Users, b \in Users :
        (a # b /\ kv[ch] # Nil) =>
            LET h == OnChannel(ch)
            IN \A k \in 1..4 :
                Follows(h, a, b, k) =>
                    /\ h[k].err = ErrNone
                    /\ Members(h[k].st) = ScenarioMembers(a, b)[k]
                    /\ (h[k].st.Call = Nil) <=> (k = 4)
                    /\ (Len(h) = k /\ AllIdle) => kv[ch] = h[k].st
                    /\ k < 4 =>
                         /\ h[k].st.Call.ID = h[1].st.Call.ID
                         /\ \A j \in 1..Len(hist) :
                               (hist[j].st.Call # Nil
                                /\ hist[j].st.Call.ID = h[1].st.Call.ID)
                               => hist[j].channelID = ch

\* the four calls of the scenario have returned
C5_Witness ==
    /\ Len(hist) = 4
    /\ Follows(OnChannel("general"), "A", "B", 4)
    /\ kv["general"] = channelState(Nil)

\* a transaction has retried at most MaxRetries times, returns the
\* store-conflict error only when its retries are used up, and a call in
\* flight has a next step to take
RetryBound ==
    \A p \in Procs :
        /\ g[p].attempts <= MaxRetries
        /\ g[p].err = ErrStoreConflict => g[p].attempts = MaxRetries
        /\ g[p].pc = "txn" => ENABLED TxnRead(p)
        /\ g[p].pc = "cas" => ENABLED TxnCas(p)

\* C6: every addUserSession/removeUserSession call returns, whatever the
\* contention on its channel: its transaction retries on a version conflict
\* at most MaxRetries times, and then returns the store-conflict error.
C6_BoundedRetries ==
    /\ []RetryBound
    /\ \A p \in Procs : (g[p].pc # "idle") ~> (g[p].pc = "idle")

\* a call gave up after its last retry met another conflict
C6_Witness ==
    \E p \in Procs :
        /\ g[p].pc = "idle"
        /\ g[p].err = ErrStoreConflict
        /\ g[p].attempts = MaxRetries

\* the calls of user u that returned, in order
CallsOf(u) == SelectSeq(hist, LAMBDA c : c.userID = u)

\* the users whose last call was addUserSession
LastAdded == {u \in Users : CallsOf(u) # <<>> /\ CallsOf(u)[Len(CallsOf(u))].op = "add"}

AllSucceeded == \A k \in 1..Len(hist) : hist[k].err = ErrNone

\* C14: when calls of different users on one initialized channel, each
\* user's calls one after the other, have all returned and the transaction
\* of each succeeded, the registry holds exactly the users whose last call
\* was addUserSession, and the members of the channel's call are these
\* users.
C14_RegistryMatchesLastCall ==
    (AllIdle /\ AllSucceeded) =>
        /\ {u \in Users : sessions[u] # NoSession} = LastAdded
        /\ Members(kv["general"]) = LastAdded

\* all calls returned with success, one of them after a retry forced by
\* the other user's concurrent call; one user ended with a join, the other
\* with a leave
C14_Witness ==
    /\ AllIdle /\ AllSucceeded
    /\ Len(hist) = MaxUserCalls
    /\ \E p \in Procs : g[p].attempts > 0
    /\ LastAdded = {"A"}
    /\ CallsOf("B") # <<>>
    /\ hist[Len(hist)].userID = "B"

\* the callback of a removeUserSession runs for a user who is not a member
\* of the call of the channel, or on a channel without a call or a record
RemoveOfNonMember(p) ==
    /\ TxnRead(p)
    /\ g[p].op = "remove"
    /\ g[p].userID \notin Members(kv[g[p].channelID])

\* C19 as stated: a removeUserSession for a user who is not a member of the
\* channel's call returns an error, whoever else is in the call.
C19_RemoveOfNonMemberFails ==
    [][\A p \in Procs :
          RemoveOfNonMember(p) => g'[p].pc = "idle" /\ g'[p].err # ErrNone]_vars

\* the users who are members of the call of at least one channel
MembersAnywhere == UNION {Members(kv[ch]) : ch \in Channels}

\* C24: after a serial sequence of addUserSession/removeUserSession calls
\* that all succeeded, on any channels, a user has an entry in the session
\* registry iff the user is a member of the call of at least one channel.
C24_RegistryIffMemberSomewhere ==
    (AllIdle /\ AllSucceeded) =>
        \A u \in Users : sessions[u] # NoSession <=> u \in MembersAnywhere

\* the last call of user u that returned
LastCall(u) == CallsOf(u)[Len(CallsOf(u))]

\* no addUserSession of user u has succeeded
NeverAdded(u) == \A k \in 1..Len(hist) :
    hist[k].userID = u /\ hist[k].op = "add" => hist[k].err # ErrNone

\* goroutine p starts a call: the registry step
Registers(p) == g[p].pc = "idle" /\ g'[p].pc # "idle"

\* goroutine p takes a step of its store transaction
Transacts(p) == TxnRead(p) \/ TxnCas(p)

Unconflicted(gs, versions, p) == versions[gs[p].channelID] = gs[p].readVersion

\* C30: a step of a call on channel X changes neither the record nor the
\* version of another channel Y, and never turns the pending
\* compare-and-swap of a transaction on Y into a conflict: a transaction
\* retries or gives up only when the version of its own channel has moved.
C30_ChannelsIndependent ==
    [][\A p \in Procs :
          (Registers(p) \/ Transacts(p)) =>
             /\ \A y \in Channels \ {g'[p].channelID} :
                   kv'[y] = kv[y] /\ kvVersion'[y] = kvVersion[y]
             /\ \A q \in Procs \ {p} :
                   (g[q].pc = "cas" /\ g[q].channelID # g'[p].channelID) =>
                      /\ g'[q] = g[q]
                      /\ Unconflicted(g', kvVersion', q) = Unconflicted(g, kvVersion, q)
             /\ (Transacts(p) /\ (g'[p].attempts > g[p].attempts
                                  \/ g'[p].err = ErrStoreConflict)) =>
                   kvVersion[g[p].channelID] # g[p].readVersion]_vars

\* two calls on different channels ran concurrently and both committed
\* without a retry
C30_Witness ==
    /\ AllIdle
    /\ calls = 2
    /\ g["g1"].op # "none" /\ g["g2"].op # "none"
    /\ g["g1"].channelID # g["g2"].channelID
    /\ \A p \in Procs : g[p].err = ErrNone /\ g[p].attempts = 0
    /\ \A ch \in Channels : kvVersion[ch] = 1

(***************************************************************************)
(* The client: teardown, voice activation, the end of a screen share       *)
(***************************************************************************)

HasEff(o, k, n) == \E j \in 1..Len(o) : o[j].k = k /\ o[j].n = n

HasEffWith(o, k, n, a) == \E j \in 1..Len(o) : o[j] = Eff(k, n, a)

\* the errors a caller passes to disconnect()
DisconnectErrs == {NoErr, "user has left channel", rtcPeerErr}

AlreadyDisconnected == Eff("logErr", "client already disconnected", "")

\* C7: in every state of the client, disconnect() called twice in succession
\* runs the teardown once and emits one 'close'; the second call changes no
\* state, sends nothing and emits nothing: all it does is log that the client
\* is already disconnected.
C7_DisconnectIdempotent ==
    \A e1, e2 \in DisconnectErrs :
        LET first == disconnect(Begin, e1)
            second == disconnect([first EXCEPT !.out = <<>>], e2)
        IN /\ first.closed
           /\ second.teardowns = 1
           /\ second.closeEmits = 1
           /\ [second EXCEPT !.out = <<>>] = [first EXCEPT !.out = <<>>]
           /\ second.out = <<AlreadyDisconnected>>

\* a disconnect() found the client closed, after its one teardown
C7_Witness ==
    /\ client.closed
    /\ client.teardowns = 1
    /\ client.closeEmits = 1
    /\ client.out = <<AlreadyDisconnected>>

\* the step that tears the client down
TeardownStep == ~client.closed /\ client'.closed

\* the error the 'close' event carries for the first fatal event
CauseErr(cause) ==
    IF cause.path = "peer:error"
    THEN IF cause.err = rtcPeerTimeoutErr THEN rtcPeerTimeoutErr ELSE rtcPeerErr
    ELSE cause.err

AllStopped(s) ==
    \A j \in 1..Len(s.streams) :
        \A k \in 1..Len(s.mstreams[s.streams[j]]) :
            LET t == s.tracks[s.mstreams[s.streams[j]][k]]
            IN t.stopped /\ t.readyState = "ended"

\* what every teardown does, whatever started it: the peer held is destroyed
\* once, the tracks of the streams held are stopped, one 'close' is emitted
\* with the error of the first fatal event; and no step tears down twice
OneTeardown ==
    /\ client'.teardowns <= 1
    /\ client'.closeEmits <= 1
    /\ client'.wsCloses <= 1
    /\ \A p \in 1..Len(client'.peers) : client'.peers[p].destroys <= 1
    /\ TeardownStep =>
          /\ client'.teardowns = 1
          /\ client'.closeEmits = 1
          /\ HasEffWith(client'.out, "emit", "close", client'.closeErr)
          /\ client'.closeErr = CauseErr(client'.cause)
          /\ client'.peer = 0
          /\ client.peer # 0 => client'.peers[client.peer].destroys = 1
          /\ client'.streams = client.streams
          /\ AllStopped(client')

\* C8 as stated: every teardown in which a transport exists closes it
\* exactly once.
C8_TransportClosedOnEveryPath ==
    [][OneTeardown /\ (TeardownStep /\ client.wsMade > 0 => client'.wsCloses = 1)]_vars

\* C8: every fatal path (peer error, peer close, reconnect timeout, join
\* rejection, explicit disconnect), in any order, leads to one teardown: the
\* peer held is destroyed once, every track of the streams held is stopped,
\* one 'close' is emitted with the error of the first fatal event.  The
\* transport is closed in that teardown, once and after 'leave', exactly when
\* the client still holds it: on a reconnect timeout the handler has dropped
\* it, and nothing is sent to it or closed.
C8_OneTeardown ==
    [][/\ OneTeardown
       /\ TeardownStep =>
             IF client.ws # 0 /\ client'.cause.path # "ws:ReconnectTimeout"
             THEN /\ client'.wsCloses = 1
                  /\ client'.ws = 0
                  /\ HasEff(client'.out, "ws.send", "leave")
                  /\ HasEff(client'.out, "ws", "close")
             ELSE /\ client'.wsCloses = 0
                  /\ client'.ws = 0
                  /\ ~HasEff(client'.out, "ws.send", "leave")
                  /\ ~HasEff(client'.out, "ws", "close")]_vars

\* a teardown started by a peer error, with a peer, a stream and the
\* transport held
C8_Witness ==
    /\ client.closed
    /\ client.cause.path = "peer:error"
    /\ HasEffWith(client.out, "emit", "close", rtcPeerErr)
    /\ HasEff(client.out, "peer", "destroy")
    /\ HasEff(client.out, "track", "stop")
    /\ HasEff(client.out, "ws", "close")
    /\ client.wsCloses = 1

\* mute() was the last call, with the voice track attached to a peer
JustMuted ==
    /\ client.peer # 0
    /\ client.audioTrack # 0
    /\ client.voiceTrackAdded
    /\ HasEff(client.out, "emit", "mute")

\* C9: with a peer, an audio track and the voice track attached once, an
\* unmute() right after mute() re-attaches the track with replaceTrack,
\* issues no addTrack, and leaves the track enabled.
C9_UnmuteReplacesTrack ==
    [][JustMuted /\ CallUnmute =>
          /\ HasEffWith(client'.out, "peer", "replaceTrack", "track")
          /\ ~HasEff(client'.out, "peer", "addTrack")
          /\ client'.tracks[client'.audioTrack].enabled
          /\ HasEff(client'.out, "emit", "unmute")
          /\ client'.tasks = client.tasks]_vars

\* an unmute() has re-attached the voice track of a client that is in a call
C9_Witness ==
    /\ client.peer # 0
    /\ client.voiceTrackAdded
    /\ client.tracks[client.audioTrack].enabled
    /\ HasEffWith(client.out, "peer", "replaceTrack", "track")
    /\ HasEff(client.out, "emit", "unmute")
    /\ ~HasEff(client.out, "peer", "addTrack")

\* the source of the shared screen ends
SourceEnds ==
    \E id \in 1..Len(client.tracks) :
        ScreenTrackEnded(id) /\ client.localScreenTrack = id

\* the peer answers the removeTrack of an ended screen track
TrackRemoved(i, res) ==
    /\ Top(client, i).fn = "onended"
    /\ PeerCallSettles(i, res)

\* C10 as stated: the source's end clears the local screen track and has
\* the track removed from the peer, and 'screen_off' is sent once the peer
\* has answered.
C10_ScreenOffAlways ==
    [][/\ SourceEnds =>
             /\ client'.localScreenTrack = 0
             /\ HasEff(client'.out, "peer", "removeTrack")
       /\ \A i \in 1..Len(client.tasks), res \in {Ok, Thrown("peer destroyed")} :
             TrackRemoved(i, res) => HasEff(client'.out, "ws.send", "screen_off")]_vars

\* C10: when the source of the shared screen ends, the client clears its
\* local screen track at once and, holding its transport and a peer, asks
\* the peer to remove the track; when the peer has removed it the client
\* sends 'screen_off', provided it still holds its transport: after a
\* teardown in between (the transport dropped, the peer destroyed) nothing
\* is sent.
C10_ScreenOffUnlessTornDown ==
    [][/\ SourceEnds =>
             /\ client'.localScreenTrack = 0
             /\ HasEff(client'.out, "peer", "removeTrack")
                    <=> client.ws # 0 /\ client.peer # 0
       /\ \A i \in 1..Len(client.tasks), res \in {Ok, Thrown("peer destroyed")} :
             TrackRemoved(i, res) =>
                (HasEff(client'.out, "ws.send", "screen_off")
                    <=> res.k = "ok" /\ client.ws # 0)]_vars

\* 'screen_off' sent for the only screen track, ended by its source and
\* not by stop()
C10_Witness ==
    /\ ~client.closed
    /\ client.localScreenTrack = 0
    /\ HasEff(client.out, "ws.send", "screen_off")
    /\ \E id \in 1..Len(client.tracks) :
          /\ client.tracks[id].onended
          /\ client.tracks[id].readyState = "ended"
          /\ ~client.tracks[id].stopped
          /\ \A other \in 1..Len(client.tracks) :
                client.tracks[other].onended => other = id

(***************************************************************************)
(* Claims about the audio devices                                          *)
(***************************************************************************)

\* the selection of a kind, what the client last enumerated of it, and the
\* stored preference for it
Current(s, kind) ==
    IF kind = "input" THEN s.currentAudioInputDevice ELSE s.currentAudioOutputDevice
Enumerated(s, kind) ==
    IF kind = "input" THEN s.audioDevices.inputs ELSE s.audioDevices.outputs
Preferred(s, kind) ==
    IF kind = "input" THEN s.storedInput ELSE s.storedOutput
DeviceIds(kind) ==
    IF kind = "input" THEN {mic1.deviceId, mic2.deviceId}
    ELSE {spk1.deviceId, spk2.deviceId}

\* the devices of a kind the last step announced with 'devicefallback'
Announced(s, kind) ==
    {s.out[k].a : k \in {j \in 1..Len(s.out) :
                             /\ s.out[j].k = "emit"
                             /\ s.out[j].n = "devicefallback"
                             /\ s.out[j].a \in DeviceIds(kind)}}

\* C11 as stated: a 'devicefallback' that announces a device other than
\* the preferred one is the fallback from a selection that disappeared: the
\* selection is then the device announced, which is the first enumerated
\* device of its kind, and it is the only 'devicefallback' of that kind
\* emitted since the device list changed.
C11_FallbackToFirst ==
    \A kind \in {"input", "output"} :
        \A d \in Announced(client, kind) :
            d # Preferred(client, kind).deviceId =>
                /\ Current(client, kind).deviceId = d
                /\ Enumerated(client, kind) # <<>>
                /\ Enumerated(client, kind)[1].deviceId = d
                /\ client.fallbacks[kind] = 1

\* C12 as stated: a 'devicefallback' that announces the preferred device
\* while another device was selected is the switch back to it: the
\* selection is then the preferred device, and it is the only
\* 'devicefallback' of that kind emitted since the device list changed.
C12_SwitchBack ==
    \A kind \in {"input", "output"} :
        \A d \in Announced(client, kind) :
            d = Preferred(client, kind).deviceId =>
                /\ Current(client, kind).deviceId = d
                /\ client.fallbacks[kind] = 1

(***************************************************************************)
(* Claims about screen sharing                                             *)
(***************************************************************************)

\* the screen tracks the client took over (setScreenStream set their
\* onended handler) that still capture
LiveScreenTracks(s) ==
    {id \in 1..Len(s.tracks) : s.tracks[id].onended /\ s.tracks[id].readyState = "live"}

\* setScreenStream() is called while a local screen track is set
SecondShare ==
    /\ client.localScreenTrack # 0
    /\ \E withAudio \in BOOLEAN :
          SetScreenStreamCalled(withAudio, MaxScreenTasks, MaxScreenStreams)

\* C13: the client never holds two capturing screen tracks, the one it
\* holds is its local screen track, and a setScreenStream() called while a
\* local screen track is set returns at once: no stream is added to the
\* peer, no 'screen_on' is sent, the local screen track and the streams the
\* client holds are as before, and no call is left in flight for it.
C13_OneScreenTrack ==
    /\ [](Cardinality(LiveScreenTracks(client)) <= 1)
    /\ [][SecondShare =>
             /\ ~HasEff(client'.out, "peer", "addStream")
             /\ ~HasEff(client'.out, "ws.send", "screen_on")
             /\ client'.localScreenTrack = client.localScreenTrack
             /\ client'.streams = client.streams
             /\ client'.tasks = client.tasks
             /\ LiveScreenTracks(client') = LiveScreenTracks(client)]_vars

\* a first setScreenStream() still awaits the peer, and a second stream
\* was passed to setScreenStream() and refused: its video track has no
\* onended handler and is in no stream the client holds
C13_Witness ==
    /\ client.localScreenTrack # 0
    /\ client.out = <<>>
    /\ \E i \in 1..Len(client.tasks) :
          /\ Top(client, i).fn = "setScreenStream"
          /\ client.tasks[i].wait = "peer.addStream"
    /\ \E id \in 1..Len(client.tracks) :
          /\ client.tracks[id].kind = "video"
          /\ ~client.tracks[id].onended
          /\ \A k \in 1..Len(client.streams) :
                \A j \in 1..Len(client.mstreams[client.streams[k]]) :
                    client.mstreams[client.streams[k]][j] # id

(***************************************************************************)
(* Claims about init                                                       *)
(***************************************************************************)

\* init() finds that the context is not secure (line 407), which it does
\* when getVideoCodec has answered
InsecureInitGoesOn(i) ==
    /\ Top(client, i).fn = "init"
    /\ ~Top(client, i).flag
    /\ \E codec \in BOOLEAN : GetVideoCodecResolves(i, codec)

\* the getUserMedia of init()'s initAudio() rejects
InitMicrophoneFails(i) ==
    /\ client.tasks[i].stack[1].fn = "init"
    /\ Top(client, i).fn = "initAudio"
    /\ GetUserMediaRejects(i)

\* the step emitted 'error' with one of the two microphone errors
MicrophoneErrorEmitted(o) ==
    \/ HasEffWith(o, "emit", "error", AudioInputPermissionsError)
    \/ HasEffWith(o, "emit", "error", AudioInputMissingError)

\* init() rejected with the insecure-context error and left no transport
InsecureIsFatal ==
    /\ HasEffWith(client'.out, "reject", "", insecureContextErr)
    /\ client'.tasks = <<>>
    /\ client'.ws = 0 /\ client'.wsMade = 0
    /\ ~client'.listening

\* C15 as stated: an init() in an insecure context, and an init() whose
\* microphone cannot be acquired, report the error and open no transport.
C15_EnvironmentErrorsFatal ==
    [][\A i \in 1..Len(client.tasks) :
          /\ InsecureInitGoesOn(i) => InsecureIsFatal
          /\ InitMicrophoneFails(i) =>
                /\ MicrophoneErrorEmitted(client'.out)
                /\ ~HasEff(client'.out, "ws", "new")
                /\ client'.ws = 0]_vars

\* C15: an init() in an insecure context rejects with the insecure-context
\* error before it enumerates devices, listens for device changes or opens
\* the transport. An init() whose microphone cannot be acquired emits
\* 'error' with the permissions error (inputs were enumerated) or the
\* missing-input error (none were), returns without rejecting, and opens
\* the transport all the same.
C15_OnlyInsecureContextFatal ==
    [][\A i \in 1..Len(client.tasks) :
          /\ InsecureInitGoesOn(i) => InsecureIsFatal
          /\ InitMicrophoneFails(i) =>
                /\ MicrophoneErrorEmitted(client'.out)
                /\ HasEffWith(client'.out, "emit", "error", AudioInputPermissionsError)
                       <=> client.audioDevices.inputs # <<>>
                /\ ~HasEff(client'.out, "reject", "")
                /\ HasEff(client'.out, "ws", "new")
                /\ client'.ws # 0 /\ client'.wsState = "connecting"
                /\ client'.wsMade = client.wsMade + 1
                /\ client'.tasks = <<>>]_vars

\* the microphone was refused, 'error' was emitted, and init() opened the
\* transport of a client that nobody has disconnected
C15_Witness ==
    /\ ~client.closed
    /\ MicrophoneErrorEmitted(client.out)
    /\ HasEff(client.out, "ws", "new")
    /\ client.wsState = "connecting"
    /\ client.audioTrack = 0

(***************************************************************************)
(* Claims about teardown and the calls in flight                           *)
(***************************************************************************)

\* C16 as stated: when disconnect() has run and no asynchronous call is in
\* flight any more, every track of every stream the client holds is
\* stopped.
C16_NoLiveTrackAfterTeardown ==
    (client.closed /\ client.tasks = <<>>) => AllStopped(client)

(***************************************************************************)
(* Claims about the messages of the transport                              *)
(***************************************************************************)

\* the k-th message delivered is one for a peer, and the client held one
Forwardable(s, k) ==
    /\ s.delivered[k].data \in {"offer", "answer", "candidate"}
    /\ s.delivered[k].peer # 0

\* C17: the messages handed to a peer are, in the order of their delivery,
\* exactly the offer, answer and candidate messages delivered while the
\* client held a peer, each handed to the peer held at its delivery; what is
\* delivered before the join acknowledgment or after the teardown, and every
\* message of another type, is handed to nobody.
C17_SignalsInOrder ==
    /\ client.signalled =
          SelectSeq([k \in 1..Len(client.delivered) |->
                        [msg |-> k, peer |-> client.delivered[k].peer]],
                    LAMBDA e : Forwardable(client, e.msg))
    /\ \A data \in MessageData :
          HasEffWith(client.out, "peer", "signal", data) =>
              /\ client.delivered # <<>>
              /\ client.delivered[Len(client.delivered)].data = data
              /\ Forwardable(client, Len(client.delivered))

\* a message for the peer was dropped before the join acknowledgment, a
\* later one was handed to the peer, and one delivered after the teardown
\* was dropped again
C17_Witness ==
    /\ Len(client.delivered) = 3
    /\ client.delivered[1].data = "offer" /\ client.delivered[1].peer = 0
    /\ client.delivered[2].data = "candidate"
    /\ client.delivered[3].data = "answer" /\ client.delivered[3].peer = 0
    /\ client.signalled = << [msg |-> 2, peer |-> 1] >>
    /\ client.closed

(***************************************************************************)
(* Claims about the transport's 'open'                                     *)
(***************************************************************************)

\* the envelopes the last step sent
Sent(o) == SelectSeq(o, LAMBDA e : e.k = "ws.send")

\* C18: every 'open' of the transport makes the client send one envelope
\* and no other: 'join' when the open is not a reconnect, and, when it is,
\* 'reconnect' with the channel id and the original and previous connection
\* identifiers the transport passed, and no 'join'.
C18_OneEnvelopePerOpen ==
    [][WsOpen =>
          /\ Len(Sent(client'.out)) = 1
          /\ IF IsReconnect(client)
             THEN /\ Sent(client'.out)[1].n = "reconnect"
                  /\ Sent(client'.out)[1].payload.channelID = JoinData.channelID
                  /\ Sent(client'.out)[1].payload.originalConnID = "conn1"
                  /\ Sent(client'.out)[1].payload.prevConnID \in ConnIDs
             ELSE Sent(client'.out)[1] = Eff("ws.send", "join", "")]_vars

\* the transport reopened after a drop and the client answered with
\* 'reconnect', in a call that had its peer
C18_Witness ==
    /\ client.wsState = "open"
    /\ client.peer # 0
    /\ Len(Sent(client.out)) = 1
    /\ Sent(client.out)[1].n = "reconnect"
    /\ Sent(client.out)[1].payload.prevConnID = "conn2"

(***************************************************************************)
(* Claims about the closed client                                          *)
(***************************************************************************)

\* the client was closed before the last step: it is closed, and the last
\* step was not the teardown, which emits 'close'
ClosedBefore == client.closed /\ ~HasEff(client.out, "emit", "close")

\* C20 as stated: a step of a client that disconnect() has closed opens no
\* transport, constructs no peer and sends no envelope.
C20_ClosedIsTerminal ==
    ClosedBefore =>
        /\ ~HasEff(client.out, "ws", "new")
        /\ ~HasEff(client.out, "peer", "new")
        /\ Sent(client.out) = <<>>

(***************************************************************************)
(* The client: the envelopes of a screen share                             *)
(***************************************************************************)

\* a call of setScreenStream or of a screen track's onended is in flight
ScreenPending(s) ==
    \E i \in 1..Len(s.tasks) : \E k \in 1..Len(s.tasks[i].stack) :
        s.tasks[i].stack[k].fn \in {"setScreenStream", "onended"}

\* C21: the 'screen_on' and 'screen_off' envelopes of a client alternate,
\* 'screen_on' first; and while no screen operation is pending and the
\* client holds its transport, the local screen track is set iff the last
\* of these envelopes was 'screen_on'.
C21_ScreenEnvelopesAlternate ==
    /\ []((~ScreenPending(client) /\ client.ws # 0) =>
             (client.localScreenTrack # 0 <=> client.lastScreen = "screen_on"))
    /\ [][/\ HasEff(client'.out, "ws.send", "screen_on") =>
                client.lastScreen \in {"", "screen_off"}
          /\ HasEff(client'.out, "ws.send", "screen_off") =>
                client.lastScreen = "screen_on"]_vars

(***************************************************************************)
(* The client: the outbound audio track                                    *)
(***************************************************************************)

\* C22: over the lifetime of a peer connection addTrack is issued for the
\* outbound audio track at most once, whatever mute(), unmute() and
\* setAudioInputDevice() calls are made.
C22_AddTrackOnce ==
    \A p \in 1..Len(client.peers) : client.peers[p].voiceAdds <= 1

(***************************************************************************)
(* The client: its peer connections                                        *)
(***************************************************************************)

\* C23: at most one peer connection the client constructed is alive, and
\* none is once disconnect() has run.
C23_OnePeerAllDestroyed ==
    /\ Cardinality(AlivePeers) <= 1
    /\ client.closed => AlivePeers = {}

(***************************************************************************)
(* The client: the order of the teardown                                   *)
(***************************************************************************)

\* in o every effect k.n comes before every effect k2.n2
Before(o, k, n, k2, n2) ==
    \A i, j \in 1..Len(o) :
        (o[i].k = k /\ o[i].n = n /\ o[j].k = k2 /\ o[j].n = n2) => i < j

\* the steps of the teardown in the order of disconnect()
TeardownInOrder(o) ==
    /\ Before(o, "rtcMonitor", "stop", "peer", "destroy")
    /\ Before(o, "rtcMonitor", "stop", "track", "stop")
    /\ Before(o, "peer", "destroy", "track", "stop")
    /\ Before(o, "track", "stop", "ws.send", "leave")
    /\ Before(o, "ws.send", "leave", "ws", "close")
    /\ Before(o, "ws", "close", "emit", "close")
    /\ o[Len(o)].k = "emit" /\ o[Len(o)].n = "close"

\* the step emits an event to the client's listeners
Emits(o) == \E j \in 1..Len(o) : o[j].k = "emit"

\* C26: the first disconnect() stops the monitor, marks the client closed,
\* destroys the peer, stops the tracks, sends 'leave', closes the transport
\* and emits 'close', in this order; 'leave' is never sent after the
\* transport was closed, and the client emits nothing after 'close'.
C26_TeardownOrderCloseLast ==
    [][/\ TeardownStep => TeardownInOrder(client'.out)
       /\ HasEff(client'.out, "ws.send", "leave") => client.wsCloses = 0
       /\ client.closeEmits > 0 => ~Emits(client'.out)]_vars

(***************************************************************************)
(* The client: the connection monitor                                      *)
(***************************************************************************)

\* the monitors that are running
Running(s) == {p \in 1..Len(s.peers) : s.peers[p].monitor = "running"}

\* C27: the connection monitor is started only by the peer's 'connect'
\* signal, on the monitor the join acknowledgment constructed with the peer,
\* and no monitor is running in a state where the client is closed.
C27_MonitorStoppedWhenClosed ==
    /\ HasEff(client.out, "rtcMonitor", "start") =>
          HasEff(client.out, "emit", "connect") /\ client.rtcMonitor # 0
    /\ client.closed => Running(client) = {}

(***************************************************************************)
(* The client: unmute() without a microphone                               *)
(***************************************************************************)

\* task i is an unmute() awaiting the getUserMedia of its initAudio()
UnmuteAcquiring(s, i) ==
    /\ Len(s.tasks[i].stack) = 2
    /\ s.tasks[i].stack[1].fn = "unmute"
    /\ s.tasks[i].stack[2].fn = "initAudio"
    /\ s.tasks[i].wait = "getUserMedia"

\* the fields a step of unmute() that attaches nothing leaves alone
NothingAttached ==
    /\ client'.audioTrack = client.audioTrack
    /\ client'.stream = client.stream
    /\ client'.streams = client.streams
    /\ client'.tracks = client.tracks
    /\ client'.voiceTrackAdded = client.voiceTrackAdded
    /\ client'.peers = client.peers

\* C28: unmute() without a peer does nothing at all. unmute() with a peer
\* and no audio track first tries to acquire the microphone; when that
\* fails it emits 'error' and ends: nothing is attached to the peer, no
\* 'unmute' is emitted or sent.
C28_UnmuteWithoutMicrophone ==
    [][/\ (UnmuteCalled(MaxAudioTasks) /\ client.peer = 0) =>
             client' = Begin
       /\ (UnmuteCalled(MaxAudioTasks) /\ client.peer # 0 /\ client.audioTrack = 0) =>
             /\ UnmuteAcquiring(client', Len(client'.tasks))
             /\ client'.out = <<>>
             /\ NothingAttached
       /\ \A i \in 1..Len(client.tasks) :
             (UnmuteAcquiring(client, i) /\ GetUserMediaRejects(i)) =>
                /\ client'.out \in {<<Eff("emit", "error", AudioInputPermissionsError)>>,
                                    <<Eff("emit", "error", AudioInputMissingError)>>}
                /\ client'.tasks = RemoveAt(client.tasks, i)
                /\ NothingAttached]_vars

\* an unmute() of a client in a call has failed to acquire the microphone
C28_Witness ==
    /\ ~client.closed
    /\ client.peer # 0
    /\ client.audioTrack = 0
    /\ client.tasks = <<>>
    /\ client.out = <<Eff("emit", "error", AudioInputPermissionsError)>>

(***************************************************************************)
(* The client: the choice of the output and of the input device            *)
(***************************************************************************)

\* what a change of the output device leaves alone: the audio track, the
\* local stream, the streams and tracks held, the peers and what was
\* attached to them, and the input device
OutputChangeFrame ==
    /\ client'.audioTrack = client.audioTrack
    /\ client'.stream = client.stream
    /\ client'.streams = client.streams
    /\ client'.tracks = client.tracks
    /\ client'.mstreams = client.mstreams
    /\ client'.peer = client.peer
    /\ client'.peers = client.peers
    /\ client'.voiceTrackAdded = client.voiceTrackAdded
    /\ client'.currentAudioInputDevice = client.currentAudioInputDevice
    /\ client'.storedInput = client.storedInput
    /\ client'.tasks = client.tasks
    /\ \A j \in 1..Len(client'.out) : client'.out[j].k \notin {"peer", "track", "ws.send"}

\* task i is a setAudioInputDevice() that stopped the old track and awaits
\* the stream of the new device
InputAcquiring(s, i) ==
    /\ Len(s.tasks[i].stack) = 1
    /\ Top(s, i).fn = "setAudioInputDevice"
    /\ s.tasks[i].wait = "getUserMedia"

\* C29: setAudioOutputDevice() on a client with a peer sets the current
\* output device, stores the preference when asked to, and emits
\* 'devicechange' (without a peer it changes nothing); either way it leaves
\* the audio track, the local stream, the peer and its senders, the
\* voice-track-added flag and the input device alone.  A change of the
\* input device does replace the outbound track: the track of the new
\* device becomes the audio track, handed to the peer with replaceTrack
\* when the voice track was attached and enabled.
C29_OutputChangeIsStateOnly ==
    [][/\ \A device \in OutputChoices, store \in BOOLEAN :
             SetAudioOutputDeviceCalled(device, store, MaxAudioTasks) =>
                /\ OutputChangeFrame
                /\ IF client.peer # 0
                   THEN /\ client'.currentAudioOutputDevice = device
                        /\ client'.storedOutput =
                              IF store THEN device ELSE client.storedOutput
                        /\ client'.out = <<Eff("emit", "devicechange", "")>>
                   ELSE client' = Begin
       /\ \A i \in 1..Len(client.tasks) :
             (InputAcquiring(client, i) /\ GetUserMediaResolves(i) /\ client.peer # 0) =>
                LET newTrack == Len(client.tracks) + 1
                    isEnabled == Top(client, i).flag
                IN /\ newTrack \in 1..Len(client'.tracks)
                   /\ client'.tracks[newTrack].enabled = isEnabled
                   /\ (isEnabled /\ client.voiceTrackAdded) =>
                         /\ HasEffWith(client'.out, "peer", "replaceTrack", "track")
                         /\ client'.audioTrack = newTrack
                   /\ ~isEnabled =>
                         /\ client'.audioTrack = newTrack
                         /\ ~HasEff(client'.out, "peer", "replaceTrack")]_vars

\* the output device of a client with its voice track attached was changed
\* and stored
C29_Witness ==
    /\ client.peer # 0
    /\ client.audioTrack # 0
    /\ client.voiceTrackAdded
    /\ client.tasks = <<>>
    /\ client.currentAudioOutputDevice = spk2
    /\ client.storedOutput = spk2
    /\ client.currentAudioInputDevice = mic2
    /\ client.out = <<Eff("emit", "devicechange", "")>>

(***************************************************************************)
(* The client: the stored preference resolved against the devices present  *)
(***************************************************************************)

\* the positions of the enumerated devices of a kind that carry the
\* identifier of the stored preference, and of those that carry its label
IdMatches(s, kind) ==
    {k \in 1..Len(Enumerated(s, kind)) :
        Enumerated(s, kind)[k].deviceId = Preferred(s, kind).deviceId}
LabelMatches(s, kind) ==
    {k \in 1..Len(Enumerated(s, kind)) :
        Enumerated(s, kind)[k].label = Preferred(s, kind).label}

\* C31: getSelectedAudioDevice resolves the stored preference of a kind
\* against the enumerated devices of that kind: when an identifier is stored
\* and a present device carries it, that device is the result; a device that
\* does not carry the stored identifier is the result only when no present
\* device carries the identifier and it is the one present device with the
\* stored label; the result is null when no identifier is stored, when
\* nothing matches, and when no present device carries the identifier and
\* several carry the label.
C31_PreferenceResolution ==
    \A kind \in {"input", "output"} :
        LET pref == Preferred(client, kind)
            devs == Enumerated(client, kind)
            ids == IdMatches(client, kind)
            labels == LabelMatches(client, kind)
            result == getSelectedAudioDevice(client, kind)
        IN /\ (pref.deviceId # "" /\ ids # {}) =>
                 \E k \in ids : result = devs[k]
           /\ (result # NoDev /\ result.deviceId # pref.deviceId) =>
                 /\ ids = {}
                 /\ Cardinality(labels) = 1
                 /\ \E k \in labels : result = devs[k]
           /\ pref.deviceId = "" => result = NoDev
           /\ (ids = {} /\ labels = {}) => result = NoDev
           /\ (ids = {} /\ Cardinality(labels) > 1) => result = NoDev

\* init() has run to its end in a browser where the stored microphone came
\* back under another identifier, alone with its label, and initAudio took
\* it, and where two speakers carry the label of the stored one and neither
\* its identifier, and initAudio took none
C31_Witness ==
    /\ client.initCalled
    /\ client.tasks = <<>>
    /\ client.stream # 0
    /\ Preferred(client, "input").deviceId # ""
    /\ IdMatches(client, "input") = {}
    /\ Cardinality(LabelMatches(client, "input")) = 1
    /\ Len(Enumerated(client, "input")) = 2
    /\ client.currentAudioInputDevice # NoDev
    /\ client.currentAudioInputDevice.label = Preferred(client, "input").label
    /\ client.currentAudioInputDevice.deviceId # Preferred(client, "input").deviceId
    /\ Preferred(client, "output").deviceId # ""
    /\ IdMatches(client, "output") = {}
    /\ Cardinality(LabelMatches(client, "output")) = 2
    /\ client.currentAudioOutputDevice = NoDev

====
